---- MODULE Spec2Model ----
(***************************************************************************)
(* Risk scoring and stock recommendation engine of Agent Chopra.           *)
(*                                                                         *)
(* Two RiskProfiler classes exist in the repository and both are modelled: *)
(*   "root": src/risk_profiler.py           (questionnaire of labels,      *)
(*            live market data, ranked recommendations)                    *)
(*   "bot" : src/alpaca_bot/risk_profiler.py (3-question weighted form,    *)
(*            placeholder prices, first-five recommendations)              *)
(*                                                                         *)
(* Units: a Python float is the record [n |-> hundredths, d |-> deviation] *)
(* standing for the real number n/100 + d * 2^-57/25, so that IEEE-754     *)
(* double rounding is computed exactly with small integers (see FRound).   *)
(* max_position_size and target_allocation are in 1/10000 of the           *)
(* portfolio; stop_loss_percentage is in tenths of a percent.              *)
(***************************************************************************)
EXTENDS Integers, Sequences, FiniteSets, TLC

(***************************************************************************)
(* IEEE-754 double arithmetic on decimal values                            *)
(***************************************************************************)

\* 2^e for small e
RECURSIVE Pow2(_)
Pow2(e) == IF e = 0 THEN 1 ELSE 2 * Pow2(e - 1)

\* 2^e modulo 25
RECURSIVE Pow2Mod25(_)
Pow2Mod25(e) == IF e = 0 THEN 1 ELSE (2 * Pow2Mod25(e - 1)) % 25

\* The exact decimal n/100
Dec(n) == [n |-> n, d |-> 0]

FNeg(x) == [n |-> -x.n, d |-> -x.d]

FIsNeg(x) == x.n < 0 \/ (x.n = 0 /\ x.d < 0)

\* x >= 2^k, for x > 0
FGeqPow2(x, k) ==
    IF k >= 0
    THEN x.n > 100 * Pow2(k) \/ (x.n = 100 * Pow2(k) /\ x.d >= 0)
    ELSE x.n * Pow2(-k) > 100 \/ (x.n * Pow2(-k) = 100 /\ x.d >= 0)

\* The binade of x > 0: the k with 2^k <= x < 2^(k+1), -6 standing for
\* every binade below 2^-5 (where the values that occur are exact)
Binade(x) ==
    IF \E k \in -5..6 : FGeqPow2(x, k)
    THEN CHOOSE k \in -5..6 : FGeqPow2(x, k) /\ ~FGeqPow2(x, k + 1)
    ELSE -6

\* x / (2^-57/25) modulo 25 * 2^j, for x > 0: the position of x between two
\* neighbouring multiples of 2^(j-57)
FRem(x, j) ==
    (Pow2(j) * ((x.n * Pow2Mod25(55 - j)) % 25) + x.d) % (25 * Pow2(j))

\* x > 0 moved to a multiple of G * 2^-57/25, given its positions r and r2
\* between the multiples of G and of 2 * G: to the nearest, ties to even
RoundToGrid(x, G, r, r2) ==
    [n |-> x.n,
     d |-> IF r = 0 THEN x.d
           ELSE IF 2 * r > G \/ (2 * r = G /\ r2 # r) THEN x.d + (G - r)
           ELSE x.d - r]

\* x > 0 rounded in the binade j - 5
FRoundIn(x, j) ==
    IF j < 0 THEN x
    ELSE RoundToGrid(x, 25 * Pow2(j), FRem(x, j), FRem(x, j + 1))

\* Round x > 0 to the nearest double (53-bit significand), ties to even
FRoundPos(x) == FRoundIn(x, Binade(x) + 5)

\* Round a real number to the nearest double
FRound(x) ==
    IF x.n = 0 /\ x.d = 0 THEN x
    ELSE IF FIsNeg(x) THEN FNeg(FRoundPos(FNeg(x)))
    ELSE FRoundPos(x)

\* A decimal literal of the source, e.g. 0.3 is Lit(30)
Lit(n) == FRound(Dec(n))

\* int * float
FMulInt(i, x) == FRound([n |-> i * x.n, d |-> i * x.d])

\* float + float
FAdd(x, y) == FRound([n |-> x.n + y.n, d |-> x.d + y.d])

\* float < float, float = float
FLess(x, y) == x.n < y.n \/ (x.n = y.n /\ x.d < y.d)

\* int(x) of a float that is not negative: the fraction is dropped
PyTruncate(x) == x.n \div 100

\* Python round(x) of a float: nearest integer, exact halves to even
PyRound(x) ==
    LET base == x.n \div 100
        frac == x.n % 100
    IN IF frac < 50 THEN base
       ELSE IF frac > 50 THEN base + 1
       ELSE IF x.d > 0 THEN base + 1
       ELSE IF x.d < 0 THEN base
       ELSE IF base % 2 = 0 THEN base ELSE base + 1

Max(a, b) == IF a >= b THEN a ELSE b
Min(a, b) == IF a <= b THEN a ELSE b

\* weighted_score and final_score of the 3-question form
WeightedScore(risk_tolerance, experience, time_horizon) ==
    FAdd(FAdd(FMulInt(risk_tolerance, Lit(50)),
              FMulInt(experience, Lit(30))),
         FMulInt(time_horizon, Lit(20)))

\* The same without the clamp max(1, min(10, .))
FinalScoreUnclamped(risk_tolerance, experience, time_horizon) ==
    PyRound(WeightedScore(risk_tolerance, experience, time_horizon))

\* The same with the time horizon scale read upside down
FinalScoreHorizonReversed(risk_tolerance, experience, time_horizon) ==
    Max(1, Min(10, PyRound(WeightedScore(risk_tolerance, experience,
                                         11 - time_horizon))))

FinalScore(risk_tolerance, experience, time_horizon) ==
    Max(1, Min(10, PyRound(WeightedScore(risk_tolerance, experience, time_horizon))))

(***************************************************************************)
(* Enumerations and static tables                                          *)
(***************************************************************************)

\* RiskLevel: member name -> value
RiskLevel ==
    [VERY_LOW |-> 1, LOW |-> 2, LOW_MODERATE |-> 3, MODERATE |-> 4,
     MODERATE_HIGH |-> 5, HIGH |-> 6, HIGH_AGGRESSIVE |-> 7, AGGRESSIVE |-> 8,
     VERY_AGGRESSIVE |-> 9, EXTREME |-> 10]

\* Sector member names of the two modules
RootSector ==
    {"TECHNOLOGY", "HEALTHCARE", "FINANCIALS", "CONSUMER_DISCRETIONARY",
     "CONSUMER_STAPLES", "ENERGY", "UTILITIES", "INDUSTRIALS", "MATERIALS",
     "REAL_ESTATE", "TELECOMMUNICATIONS"}

BotSector ==
    {"TECHNOLOGY", "HEALTHCARE", "FINANCIALS", "CONSUMER_DISCRETIONARY",
     "CONSUMER_STAPLES", "ENERGY", "UTILITIES", "MATERIALS", "INDUSTRIALS",
     "REAL_ESTATE", "COMMUNICATION"}

\* RiskProfiler._initialize_risk_profiles of src/risk_profiler.py
RootRiskProfiles == <<
    [score |-> 1,
     level |-> "VERY_LOW",
     description |-> "Ultra-conservative investor seeking capital preservation",
     allocation |-> [stocks |-> 10, bonds |-> 70, cash |-> 20],
     max_position_size |-> 500,
     recommended_sectors |-> <<"UTILITIES", "CONSUMER_STAPLES">>,
     avoid_sectors |-> <<"TECHNOLOGY", "ENERGY", "CONSUMER_DISCRETIONARY">>],
    [score |-> 2,
     level |-> "LOW",
     description |-> "Conservative investor with minimal risk tolerance",
     allocation |-> [stocks |-> 30, bonds |-> 60, cash |-> 10],
     max_position_size |-> 800,
     recommended_sectors |-> <<"UTILITIES", "CONSUMER_STAPLES", "HEALTHCARE">>,
     avoid_sectors |-> <<"TECHNOLOGY", "ENERGY">>],
    [score |-> 3,
     level |-> "LOW_MODERATE",
     description |-> "Cautious investor with slight growth orientation",
     allocation |-> [stocks |-> 40, bonds |-> 50, cash |-> 10],
     max_position_size |-> 1000,
     recommended_sectors |-> <<"HEALTHCARE", "CONSUMER_STAPLES", "UTILITIES", "FINANCIALS">>,
     avoid_sectors |-> <<"ENERGY", "MATERIALS">>],
    [score |-> 4,
     level |-> "MODERATE",
     description |-> "Balanced investor seeking steady growth",
     allocation |-> [stocks |-> 50, bonds |-> 40, cash |-> 10],
     max_position_size |-> 1200,
     recommended_sectors |-> <<"HEALTHCARE", "FINANCIALS", "CONSUMER_STAPLES", "INDUSTRIALS">>,
     avoid_sectors |-> <<"ENERGY">>],
    [score |-> 5,
     level |-> "MODERATE_HIGH",
     description |-> "Growth-oriented investor with moderate risk tolerance",
     allocation |-> [stocks |-> 60, bonds |-> 30, cash |-> 10],
     max_position_size |-> 1500,
     recommended_sectors |-> <<"TECHNOLOGY", "HEALTHCARE", "FINANCIALS", "INDUSTRIALS">>,
     avoid_sectors |-> <<>>],
    [score |-> 6,
     level |-> "HIGH",
     description |-> "Growth investor comfortable with market volatility",
     allocation |-> [stocks |-> 70, bonds |-> 20, cash |-> 10],
     max_position_size |-> 1800,
     recommended_sectors |-> <<"TECHNOLOGY", "HEALTHCARE", "CONSUMER_DISCRETIONARY", "FINANCIALS">>,
     avoid_sectors |-> <<>>],
    [score |-> 7,
     level |-> "HIGH_AGGRESSIVE",
     description |-> "Aggressive growth investor",
     allocation |-> [stocks |-> 80, bonds |-> 15, cash |-> 5],
     max_position_size |-> 2000,
     recommended_sectors |-> <<"TECHNOLOGY", "CONSUMER_DISCRETIONARY", "HEALTHCARE", "INDUSTRIALS">>,
     avoid_sectors |-> <<>>],
    [score |-> 8,
     level |-> "AGGRESSIVE",
     description |-> "High-risk investor seeking maximum growth",
     allocation |-> [stocks |-> 90, bonds |-> 5, cash |-> 5],
     max_position_size |-> 2500,
     recommended_sectors |-> <<"TECHNOLOGY", "CONSUMER_DISCRETIONARY", "ENERGY", "MATERIALS">>,
     avoid_sectors |-> <<>>],
    [score |-> 9,
     level |-> "VERY_AGGRESSIVE",
     description |-> "Very high-risk investor with growth focus",
     allocation |-> [stocks |-> 95, bonds |-> 0, cash |-> 5],
     max_position_size |-> 3000,
     recommended_sectors |-> <<"TECHNOLOGY", "ENERGY", "MATERIALS", "CONSUMER_DISCRETIONARY">>,
     avoid_sectors |-> <<>>],
    [score |-> 10,
     level |-> "EXTREME",
     description |-> "Maximum risk tolerance, speculative investor",
     allocation |-> [stocks |-> 100, bonds |-> 0, cash |-> 0],
     max_position_size |-> 3500,
     recommended_sectors |-> <<"TECHNOLOGY", "ENERGY", "MATERIALS", "CONSUMER_DISCRETIONARY">>,
     avoid_sectors |-> <<>>]
>>
\* RiskProfiler._initialize_stock_universe of src/risk_profiler.py, in
\* dictionary (insertion) order
RootStockUniverse == <<
    [symbol |-> "JNJ", name |-> "Johnson & Johnson", sector |-> "HEALTHCARE", risk |-> 2],
    [symbol |-> "PG", name |-> "Procter & Gamble", sector |-> "CONSUMER_STAPLES", risk |-> 2],
    [symbol |-> "KO", name |-> "Coca-Cola", sector |-> "CONSUMER_STAPLES", risk |-> 2],
    [symbol |-> "NEE", name |-> "NextEra Energy", sector |-> "UTILITIES", risk |-> 3],
    [symbol |-> "SO", name |-> "Southern Company", sector |-> "UTILITIES", risk |-> 2],
    [symbol |-> "MSFT", name |-> "Microsoft", sector |-> "TECHNOLOGY", risk |-> 4],
    [symbol |-> "AAPL", name |-> "Apple", sector |-> "TECHNOLOGY", risk |-> 5],
    [symbol |-> "JPM", name |-> "JPMorgan Chase", sector |-> "FINANCIALS", risk |-> 5],
    [symbol |-> "V", name |-> "Visa", sector |-> "FINANCIALS", risk |-> 4],
    [symbol |-> "UNH", name |-> "UnitedHealth", sector |-> "HEALTHCARE", risk |-> 4],
    [symbol |-> "HD", name |-> "Home Depot", sector |-> "CONSUMER_DISCRETIONARY", risk |-> 5],
    [symbol |-> "WMT", name |-> "Walmart", sector |-> "CONSUMER_STAPLES", risk |-> 3],
    [symbol |-> "GOOGL", name |-> "Alphabet", sector |-> "TECHNOLOGY", risk |-> 6],
    [symbol |-> "AMZN", name |-> "Amazon", sector |-> "CONSUMER_DISCRETIONARY", risk |-> 7],
    [symbol |-> "TSLA", name |-> "Tesla", sector |-> "CONSUMER_DISCRETIONARY", risk |-> 8],
    [symbol |-> "NVDA", name |-> "NVIDIA", sector |-> "TECHNOLOGY", risk |-> 8],
    [symbol |-> "META", name |-> "Meta Platforms", sector |-> "TECHNOLOGY", risk |-> 7],
    [symbol |-> "NFLX", name |-> "Netflix", sector |-> "CONSUMER_DISCRETIONARY", risk |-> 7],
    [symbol |-> "ARKK", name |-> "ARK Innovation ETF", sector |-> "TECHNOLOGY", risk |-> 9],
    [symbol |-> "COIN", name |-> "Coinbase", sector |-> "FINANCIALS", risk |-> 10],
    [symbol |-> "RIVN", name |-> "Rivian", sector |-> "CONSUMER_DISCRETIONARY", risk |-> 10],
    [symbol |-> "PLTR", name |-> "Palantir", sector |-> "TECHNOLOGY", risk |-> 9],
    [symbol |-> "SPY", name |-> "SPDR S&P 500", sector |-> "FINANCIALS", risk |-> 5],
    [symbol |-> "QQQ", name |-> "Invesco QQQ", sector |-> "TECHNOLOGY", risk |-> 6],
    [symbol |-> "VTI", name |-> "Vanguard Total Stock", sector |-> "FINANCIALS", risk |-> 5],
    [symbol |-> "TLT", name |-> "iShares 20+ Year Treasury", sector |-> "FINANCIALS", risk |-> 3],
    [symbol |-> "GLD", name |-> "SPDR Gold Shares", sector |-> "MATERIALS", risk |-> 4]
>>
\* RiskProfiler._initialize_risk_profiles of src/alpaca_bot/risk_profiler.py
BotRiskProfiles == <<
    [first_name |-> "",
     last_name |-> "",
     score |-> 1,
     level |-> "VERY_LOW",
     description |-> "Ultra-conservative investor seeking capital preservation",
     allocation |-> [stocks |-> 10, bonds |-> 70, cash |-> 20],
     max_position_size |-> 500,
     recommended_sectors |-> <<"UTILITIES", "CONSUMER_STAPLES">>,
     avoid_sectors |-> <<"TECHNOLOGY", "ENERGY">>,
     trading_strategy |-> "Conservative",
     automated_trading_enabled |-> FALSE,
     max_daily_trades |-> 3,
     stop_loss_percentage |-> 50],
    [first_name |-> "",
     last_name |-> "",
     score |-> 2,
     level |-> "LOW",
     description |-> "Conservative investor with minimal risk tolerance",
     allocation |-> [stocks |-> 30, bonds |-> 60, cash |-> 10],
     max_position_size |-> 800,
     recommended_sectors |-> <<"UTILITIES", "CONSUMER_STAPLES", "HEALTHCARE">>,
     avoid_sectors |-> <<"TECHNOLOGY", "ENERGY">>,
     trading_strategy |-> "Conservative",
     automated_trading_enabled |-> FALSE,
     max_daily_trades |-> 3,
     stop_loss_percentage |-> 50],
    [first_name |-> "",
     last_name |-> "",
     score |-> 3,
     level |-> "LOW_MODERATE",
     description |-> "Cautious investor with slight growth orientation",
     allocation |-> [stocks |-> 40, bonds |-> 50, cash |-> 10],
     max_position_size |-> 1000,
     recommended_sectors |-> <<"HEALTHCARE", "CONSUMER_STAPLES", "UTILITIES">>,
     avoid_sectors |-> <<"ENERGY", "MATERIALS">>,
     trading_strategy |-> "Conservative",
     automated_trading_enabled |-> FALSE,
     max_daily_trades |-> 3,
     stop_loss_percentage |-> 50],
    [first_name |-> "",
     last_name |-> "",
     score |-> 4,
     level |-> "MODERATE",
     description |-> "Balanced investor seeking steady growth",
     allocation |-> [stocks |-> 50, bonds |-> 40, cash |-> 10],
     max_position_size |-> 1200,
     recommended_sectors |-> <<"HEALTHCARE", "FINANCIALS", "CONSUMER_STAPLES">>,
     avoid_sectors |-> <<"ENERGY">>,
     trading_strategy |-> "Conservative",
     automated_trading_enabled |-> FALSE,
     max_daily_trades |-> 3,
     stop_loss_percentage |-> 50],
    [first_name |-> "",
     last_name |-> "",
     score |-> 5,
     level |-> "MODERATE_HIGH",
     description |-> "Growth-oriented investor with moderate risk tolerance",
     allocation |-> [stocks |-> 60, bonds |-> 30, cash |-> 10],
     max_position_size |-> 1500,
     recommended_sectors |-> <<"TECHNOLOGY", "HEALTHCARE", "FINANCIALS">>,
     avoid_sectors |-> <<>>,
     trading_strategy |-> "Conservative",
     automated_trading_enabled |-> FALSE,
     max_daily_trades |-> 3,
     stop_loss_percentage |-> 50],
    [first_name |-> "",
     last_name |-> "",
     score |-> 6,
     level |-> "HIGH",
     description |-> "Growth investor comfortable with volatility",
     allocation |-> [stocks |-> 70, bonds |-> 20, cash |-> 10],
     max_position_size |-> 1800,
     recommended_sectors |-> <<"TECHNOLOGY", "CONSUMER_DISCRETIONARY", "FINANCIALS">>,
     avoid_sectors |-> <<>>,
     trading_strategy |-> "Conservative",
     automated_trading_enabled |-> FALSE,
     max_daily_trades |-> 3,
     stop_loss_percentage |-> 50],
    [first_name |-> "",
     last_name |-> "",
     score |-> 7,
     level |-> "HIGH_AGGRESSIVE",
     description |-> "Aggressive growth investor seeking high returns",
     allocation |-> [stocks |-> 80, bonds |-> 15, cash |-> 5],
     max_position_size |-> 2000,
     recommended_sectors |-> <<"TECHNOLOGY", "ENERGY", "MATERIALS">>,
     avoid_sectors |-> <<>>,
     trading_strategy |-> "Conservative",
     automated_trading_enabled |-> FALSE,
     max_daily_trades |-> 3,
     stop_loss_percentage |-> 50],
    [first_name |-> "",
     last_name |-> "",
     score |-> 8,
     level |-> "AGGRESSIVE",
     description |-> "High-risk investor focused on capital appreciation",
     allocation |-> [stocks |-> 85, bonds |-> 10, cash |-> 5],
     max_position_size |-> 2500,
     recommended_sectors |-> <<"TECHNOLOGY", "ENERGY", "MATERIALS", "CONSUMER_DISCRETIONARY">>,
     avoid_sectors |-> <<>>,
     trading_strategy |-> "Conservative",
     automated_trading_enabled |-> FALSE,
     max_daily_trades |-> 3,
     stop_loss_percentage |-> 50],
    [first_name |-> "",
     last_name |-> "",
     score |-> 9,
     level |-> "VERY_AGGRESSIVE",
     description |-> "Very aggressive investor willing to accept high volatility",
     allocation |-> [stocks |-> 90, bonds |-> 5, cash |-> 5],
     max_position_size |-> 3000,
     recommended_sectors |-> <<"TECHNOLOGY", "ENERGY", "MATERIALS">>,
     avoid_sectors |-> <<>>,
     trading_strategy |-> "Conservative",
     automated_trading_enabled |-> FALSE,
     max_daily_trades |-> 3,
     stop_loss_percentage |-> 50],
    [first_name |-> "",
     last_name |-> "",
     score |-> 10,
     level |-> "EXTREME",
     description |-> "Extreme risk investor seeking maximum returns",
     allocation |-> [stocks |-> 95, bonds |-> 0, cash |-> 5],
     max_position_size |-> 3500,
     recommended_sectors |-> <<"TECHNOLOGY", "ENERGY", "MATERIALS">>,
     avoid_sectors |-> <<>>,
     trading_strategy |-> "Conservative",
     automated_trading_enabled |-> FALSE,
     max_daily_trades |-> 3,
     stop_loss_percentage |-> 50]
>>
\* RiskProfiler._initialize_stock_universe of src/alpaca_bot/risk_profiler.py
BotStockUniverse == <<
    [symbol |-> "KO", name |-> "Coca-Cola", sector |-> "CONSUMER_STAPLES", risk |-> 2],
    [symbol |-> "PG", name |-> "Procter & Gamble", sector |-> "CONSUMER_STAPLES", risk |-> 2],
    [symbol |-> "JNJ", name |-> "Johnson & Johnson", sector |-> "HEALTHCARE", risk |-> 3],
    [symbol |-> "MSFT", name |-> "Microsoft", sector |-> "TECHNOLOGY", risk |-> 4],
    [symbol |-> "AAPL", name |-> "Apple", sector |-> "TECHNOLOGY", risk |-> 5],
    [symbol |-> "JPM", name |-> "JPMorgan Chase", sector |-> "FINANCIALS", risk |-> 5],
    [symbol |-> "TSLA", name |-> "Tesla", sector |-> "CONSUMER_DISCRETIONARY", risk |-> 9],
    [symbol |-> "NVDA", name |-> "NVIDIA", sector |-> "TECHNOLOGY", risk |-> 8],
    [symbol |-> "AMD", name |-> "Advanced Micro Devices", sector |-> "TECHNOLOGY", risk |-> 8]
>>

\* The stock universe of a RiskProfiler
StockUniverse(variant) ==
    IF variant = "root" THEN RootStockUniverse ELSE BotStockUniverse

(***************************************************************************)
(* Bounds of the model                                                     *)
(***************************************************************************)

\* Questionnaire answers range over (1 - AnswerSlack)..(10 + AnswerSlack)
AnswerSlack == 3

\* Longest trading_history given to the label questionnaire
MaxTrades == 2

\* Most positions of a portfolio given to get_stock_recommendations of the
\* root RiskProfiler, and of a position list given to that of alpaca_bot
MaxHoldings == 1

MaxPositions == 3

\* Market data: the symbols at every MarketStride-th place of the stock
\* universe share one quote, the others have the neutral quote
MarketStride == 2

(***************************************************************************)
(* State                                                                   *)
(***************************************************************************)

VARIABLES
    risk_profiles,  \* self.risk_profiles of the two RiskProfiler objects
    call,           \* the operation that last returned: arguments and result
    first,          \* the first assess call of the run (for comparisons)
    kept,           \* the profile objects that callers kept from assess calls
    stock_universe, \* self.stock_universe of the two RiskProfiler objects
    callers,        \* concurrent callers: where each one is in its call
    frames,         \* the local variables of the calls in progress
    broker,         \* the Alpaca paper account the trading bots talk to
    cycle,          \* ExtendedAlpacaTrader.run_trading_cycle in progress
    run             \* main() of the trading bot in progress

\* The state of concurrent calls
threads == <<stock_universe, callers, frames>>

\* The state of the trading bots
trading == <<broker, cycle, run>>

vars == <<risk_profiles, call, first, kept, stock_universe, callers, frames,
          broker, cycle, run>>

\* A dictionary entry that may be absent: <<>> or <<value>>
Absent == <<>>

Get(entry, default) == IF entry = <<>> THEN default ELSE entry[1]

\* A Python bool or int given as an argument, and its truth value
PyBool(b) == [type |-> "bool", int |-> IF b THEN 1 ELSE 0]

PyInt(i) == [type |-> "int", int |-> i]

Truthy(value) == value.int # 0

NoCall == [op |-> "none"]

\* The paper account before anything was traded, outside market hours
ClosedAccount == [is_open |-> FALSE, open_positions |-> 0]

\* positions_data of run_trading_cycle: the keys of the dict and its count
NoPositionsData == [keys |-> {}, total_positions |-> 0]

\* No trading cycle has been started
NoCycle == [pc |-> "idle", clock |-> "none", positions_data |-> NoPositionsData,
            submitted |-> <<>>, logged |-> ""]

\* main() has not been started
NoRun == [pc |-> "idle", variant |-> "none", is_open |-> FALSE,
          positions |-> 0, buy_order |-> "unset", submitted |-> <<>>,
          steps |-> <<>>]

\* The threads that call one RiskProfiler at the same time
MaxCallers == 2

Callers == 1..MaxCallers

\* A caller that is in no call
NotCalling == [pc |-> "idle"]

\* The local variables of a call before it assigns them
NoLocals == [final_score |-> 0, compatible_stocks |-> <<>>, recommendations |-> <<>>]

Idle == call.op = "none"

(***************************************************************************)
(* assess_risk_profile, src/alpaca_bot/risk_profiler.py                    *)
(***************************************************************************)

\* A base profile whose cash share is left out
BaseProfileWithoutCash(profiles, final_score) ==
    [(IF final_score \in DOMAIN profiles THEN profiles[final_score] ELSE profiles[5])
        EXCEPT !.allocation.cash = 0]

\* A base profile that also avoids the first sector it recommends
BaseProfileAvoidingRecommended(profiles, final_score) ==
    [(IF final_score \in DOMAIN profiles THEN profiles[final_score] ELSE profiles[5])
        EXCEPT !.avoid_sectors = Append(@, profiles[5].recommended_sectors[1])]

\* A lookup that is off by one
BaseProfileOffByOne(profiles, final_score) ==
    IF final_score - 1 \in DOMAIN profiles
    THEN profiles[final_score - 1] ELSE profiles[5]

\* user_data.get(key, 1): a low default for a missing answer
AnswerOrLowest(entry) == Get(entry, 1)

\* user_data.get(key, 5) of the three answers
AnswerOrMidpoint(entry) == Get(entry, 5)

\* self.risk_profiles.get(final_score, self.risk_profiles[5])
BaseProfile(profiles, final_score) ==
    IF final_score \in DOMAIN profiles THEN profiles[final_score] ELSE profiles[5]

\* The personalized copy of the table entry of final_score
PersonalizedProfile(final_score, base_profile, user_data) ==
    [first_name |-> Get(user_data.first_name, ""),
     last_name |-> Get(user_data.last_name, ""),
     score |-> final_score,
     level |-> base_profile.level,
     description |-> base_profile.description,
     allocation |-> base_profile.allocation,
     max_position_size |-> base_profile.max_position_size,
     recommended_sectors |-> base_profile.recommended_sectors,
     avoid_sectors |-> base_profile.avoid_sectors,
     trading_strategy |-> Get(user_data.trading_strategy, "Conservative"),
     automated_trading_enabled |-> Get(user_data.automated_trading, FALSE),
     max_daily_trades |-> Get(user_data.max_daily_trades, 3),
     stop_loss_percentage |-> Get(user_data.stop_loss_percentage, 50)]

\* The returned pair
ScoreAndProfile(profiles, final_score, user_data) ==
    <<final_score,
      PersonalizedProfile(final_score, BaseProfile(profiles, final_score), user_data)>>

\* RiskProfiler.assess_risk_profile of the 3-question form: <<score, profile>>
BotAssessRiskProfile(profiles, user_data) ==
    ScoreAndProfile(profiles,
                    FinalScore(AnswerOrMidpoint(user_data.q1_risk_tolerance),
                               AnswerOrMidpoint(user_data.q2_investment_experience),
                               AnswerOrMidpoint(user_data.q3_time_horizon)),
                    user_data)

\* The identity and automated-trading fields a caller may supply
Overlays ==
    {[first_name |-> Absent, last_name |-> Absent, trading_strategy |-> Absent,
      automated_trading |-> Absent, max_daily_trades |-> Absent,
      stop_loss_percentage |-> Absent],
     [first_name |-> <<"Ada">>, last_name |-> <<"Lovelace">>,
      trading_strategy |-> <<"Tech Focus">>, automated_trading |-> <<TRUE>>,
      max_daily_trades |-> <<7>>, stop_loss_percentage |-> <<25>>]}

BotUserDataOver(answers) ==
    {[q1_risk_tolerance |-> a, q2_investment_experience |-> b,
      q3_time_horizon |-> c,
      first_name |-> o.first_name, last_name |-> o.last_name,
      trading_strategy |-> o.trading_strategy,
      automated_trading |-> o.automated_trading,
      max_daily_trades |-> o.max_daily_trades,
      stop_loss_percentage |-> o.stop_loss_percentage] :
        a \in answers, b \in answers, c \in answers, o \in Overlays}

Answers == {Absent} \cup {<<a>> : a \in (1 - AnswerSlack)..(10 + AnswerSlack)}

BotUserData == BotUserDataOver(Answers)

\* A call that personalizes the table entry itself after reading it
AssessBotInPlace(user_data) ==
    LET outcome == BotAssessRiskProfile(risk_profiles.bot, user_data)
    IN /\ call' = [op |-> "assess", variant |-> "bot", args |-> user_data,
                   result |-> outcome, raised |-> ""]
       /\ risk_profiles' =
              [risk_profiles EXCEPT !.bot[outcome[1]].description = "Personal profile"]

\* One call of assess_risk_profile on the alpaca_bot RiskProfiler
AssessBot(user_data) ==
    /\ call' = [op |-> "assess", variant |-> "bot", args |-> user_data,
                result |-> BotAssessRiskProfile(risk_profiles.bot, user_data),
                raised |-> ""]
    /\ UNCHANGED risk_profiles

(***************************************************************************)
(* assess_risk_profile, src/risk_profiler.py                               *)
(***************************************************************************)

\* dict.get(key, default) of a score table
Lookup(table, key, default) ==
    IF key \in DOMAIN table THEN table[key] ELSE default

income_scores == [low |-> 0, moderate |-> 1, high |-> 2, very_high |-> 3]

exp_scores == [beginner |-> 0, intermediate |-> 1, advanced |-> 2, expert |-> 3]

horizon_scores == [short |-> 0, medium |-> 1, long |-> 2, very_long |-> 3]

tolerance_scores ==
    [very_low |-> 0, low |-> 1, moderate |-> 2, high |-> 3, very_high |-> 4]

high_risk_symbols == {"TSLA", "NVDA", "ARKK", "COIN", "PLTR"}

\* Number of trades of the history whose symbol is a high-risk symbol
RECURSIVE HighRiskTrades(_)
HighRiskTrades(trading_history) ==
    IF trading_history = <<>> THEN 0
    ELSE (IF Head(trading_history).symbol \in high_risk_symbols THEN 1 ELSE 0)
         + HighRiskTrades(Tail(trading_history))

\* RiskProfiler._analyze_trading_behavior: risk_ratio = high / len compared
\* with 0.5 and 0.3 (the double 0.3 lies below 3/10, and high / len rounds
\* to it exactly when high / len = 3/10)
AnalyzeTradingBehavior(trading_history) ==
    IF trading_history = <<>> THEN 0
    ELSE LET high == HighRiskTrades(trading_history)
             len  == Len(trading_history)
         IN IF 2 * high > len THEN 2
            ELSE IF 10 * high > 3 * len THEN 1
            ELSE 0

AgeScore(age) ==
    IF age < 25 THEN 3
    ELSE IF age < 35 THEN 2
    ELSE IF age < 45 THEN 1
    ELSE IF age < 55 THEN 0
    ELSE -1

\* RiskProfiler.assess_risk_profile of the label form: <<score, profile>>;
\* the profile is the table entry itself
RootAssessRiskProfile(profiles, user_data) ==
    LET trading_history == Get(user_data.trading_history, <<>>)
        score ==
            AgeScore(Get(user_data.age, 40))
            + Lookup(income_scores, Get(user_data.income, "moderate"), 1)
            + Lookup(exp_scores, Get(user_data.experience, "beginner"), 0)
            + Lookup(horizon_scores, Get(user_data.time_horizon, "medium"), 1)
            + Lookup(tolerance_scores, Get(user_data.risk_tolerance, "moderate"), 2)
            + (IF trading_history # <<>>
               THEN AnalyzeTradingBehavior(trading_history) ELSE 0)
        final_score == Max(1, Min(10, score))
    IN <<final_score, profiles[final_score]>>

\* Ages on both sides of every threshold of the age scoring
Ages == {24, 25, 34, 35, 44, 45, 54, 55}

\* Labels a caller may give: those of a table, one unknown label, or none
Labels(table) ==
    {Absent} \cup {<<l>> : l \in DOMAIN table} \cup {<<"other">>}

\* Trades of a history: a high-risk symbol and a low-risk one
Trades == {[symbol |-> "TSLA"], [symbol |-> "KO"]}

RECURSIVE SeqsUpTo(_, _)
SeqsUpTo(S, n) ==
    IF n = 0 THEN {<<>>}
    ELSE LET shorter == SeqsUpTo(S, n - 1)
         IN shorter \cup {Append(s, x) : s \in {t \in shorter : Len(t) = n - 1}, x \in S}

RootUserDataOver(ages, histories) ==
    [age : {Absent} \cup {<<a>> : a \in ages},
     income : Labels(income_scores),
     experience : Labels(exp_scores),
     time_horizon : Labels(horizon_scores),
     risk_tolerance : Labels(tolerance_scores),
     trading_history : histories]

RootUserData ==
    RootUserDataOver(Ages, {Absent} \cup {<<h>> : h \in SeqsUpTo(Trades, MaxTrades)})

\* One call of assess_risk_profile on the root RiskProfiler
AssessRoot(user_data) ==
    /\ call' = [op |-> "assess", variant |-> "root", args |-> user_data,
                result |-> RootAssessRiskProfile(risk_profiles.root, user_data),
                raised |-> ""]
    /\ UNCHANGED risk_profiles

(***************************************************************************)
(* Holdings and market data supplied to get_stock_recommendations          *)
(***************************************************************************)

\* A position record as the core reads it (keys symbol, market_value) ...
CoreHolding(sym, value) ==
    [symbol |-> <<sym>>, market_value |-> <<value>>, Symbol |-> Absent]

\* ... and as TradingDashboard.get_positions builds it (keys 'Symbol',
\* 'Market Value', ...): the keys the core reads are absent
DashboardHolding(sym, value) ==
    [symbol |-> Absent, market_value |-> Absent, Symbol |-> <<sym>>]

\* What yfinance answers for one symbol.  status: "error" (the lookup
\* raises), "empty" (no price history) or "ok"; bars: rows of the 3-month
\* history; momentum: sign of the 20-day return beyond +-5%; volume_surge:
\* recent volume above 1.2 * average; pe_in_range: info has a trailingPE in
\* 10..25; prices in cents
QError == [status |-> "error", bars |-> 0, momentum |-> 0, volume_surge |-> FALSE,
           pe_in_range |-> FALSE, close |-> 0, support |-> 0, resistance |-> 0]

QEmpty == [status |-> "empty", bars |-> 0, momentum |-> 0, volume_surge |-> FALSE,
           pe_in_range |-> FALSE, close |-> 0, support |-> 0, resistance |-> 0]

QNeutral == [status |-> "ok", bars |-> 10, momentum |-> 0, volume_surge |-> FALSE,
             pe_in_range |-> FALSE, close |-> 10000, support |-> 9000, resistance |-> 12000]

QBull == [status |-> "ok", bars |-> 60, momentum |-> 1, volume_surge |-> TRUE,
          pe_in_range |-> TRUE, close |-> 20000, support |-> 15000, resistance |-> 21000]

QBear == [status |-> "ok", bars |-> 20, momentum |-> -1, volume_surge |-> FALSE,
          pe_in_range |-> FALSE, close |-> 5000, support |-> 4000, resistance |-> 8000]

QVolume == [status |-> "ok", bars |-> 50, momentum |-> 0, volume_surge |-> TRUE,
            pe_in_range |-> FALSE, close |-> 10000, support |-> 9000, resistance |-> 13000]

QValue == [status |-> "ok", bars |-> 19, momentum |-> 1, volume_surge |-> TRUE,
           pe_in_range |-> TRUE, close |-> 10000, support |-> 9000, resistance |-> 12000]

Quotes == {QError, QEmpty, QNeutral, QBull, QBear, QVolume, QValue}

\* Place of a symbol in the root stock universe
RootIndex ==
    [sym \in {RootStockUniverse[i].symbol : i \in 1..Len(RootStockUniverse)} |->
        CHOOSE i \in 1..Len(RootStockUniverse) : RootStockUniverse[i].symbol = sym]

\* A market: [stride, residue, quote]
Markets ==
    [stride : {MarketStride}, residue : 0..(MarketStride - 1), quote : Quotes]

\* The answer of the market-data provider for a symbol
QuoteOf(market, sym) ==
    IF RootIndex[sym] % market.stride = market.residue
    THEN market.quote ELSE QNeutral

(***************************************************************************)
(* get_stock_recommendations, src/risk_profiler.py                         *)
(***************************************************************************)

\* x in list
Contains(list, x) == \E i \in 1..Len(list) : list[i] = x

Abs(i) == IF i < 0 THEN -i ELSE i

\* RiskProfiler._is_risk_compatible
IsRiskCompatible(stock_risk, user_risk) == Abs(stock_risk - user_risk) <= 2

\* The float literals of the strength computation
F050 == Lit(50)
F020 == Lit(20)
F010 == Lit(10)
F005 == Lit(5)
F070 == Lit(70)
F100 == Dec(100)
F000 == Dec(0)

\* Base score 0.5 plus the risk-compatibility bonus
RiskBonus(risk_diff) ==
    IF risk_diff = 0 THEN FAdd(F050, F020)
    ELSE IF risk_diff = 1 THEN FAdd(F050, F010)
    ELSE F050

\* Sector preference bonus
SectorBonus(strength, sector_preferred) ==
    IF sector_preferred THEN FAdd(strength, F020) ELSE strength

\* Momentum: +0.1 above 5%, -0.1 below -5%, with at least 20 bars
MomentumBonus(strength, quote) ==
    IF quote.bars >= 20 /\ quote.momentum > 0 THEN FAdd(strength, F010)
    ELSE IF quote.bars >= 20 /\ quote.momentum < 0 THEN FAdd(strength, FNeg(F010))
    ELSE strength

\* Volume confirmation, with at least 20 bars
VolumeBonus(strength, quote) ==
    IF quote.bars >= 20 /\ quote.volume_surge THEN FAdd(strength, F005)
    ELSE strength

\* Reasonable P/E ratio
ValuationBonus(strength, quote) ==
    IF quote.pe_in_range THEN FAdd(strength, F010) ELSE strength

\* max(low, min(high, strength))
Clamp(strength, low, high) ==
    IF FLess(high, strength) THEN high
    ELSE IF FLess(strength, low) THEN low
    ELSE strength

\* The strength without the final max(0, min(1, .))
CalculateRecommendationStrengthUncapped(risk_diff, sector_preferred, quote) ==
    ValuationBonus(
        VolumeBonus(
            MomentumBonus(SectorBonus(RiskBonus(risk_diff), sector_preferred),
                          quote),
            quote),
        quote)

\* RiskProfiler._calculate_recommendation_strength, from the risk
\* difference, the sector preference and the quote
CalculateRecommendationStrength(risk_diff, sector_preferred, quote) ==
    Clamp(ValuationBonus(
              VolumeBonus(
                  MomentumBonus(SectorBonus(RiskBonus(risk_diff), sector_preferred),
                                quote),
                  quote),
              quote),
          F000, F100)

\* The strengths of all the cases, computed once
StrengthTable ==
    [risk_diff \in 0..9, sector_preferred \in BOOLEAN, quote \in Quotes |->
        CalculateRecommendationStrength(risk_diff, sector_preferred, quote)]

\* RiskProfiler._generate_recommendation_reasoning: the reasons joined by ". "
GenerateRecommendationReasoning(stock_data, risk_profile, strength) ==
    (IF Abs(stock_data.risk - risk_profile.score) <= 1
     THEN <<"Risk level aligns well with your profile">> ELSE <<>>)
    \o (IF Contains(risk_profile.recommended_sectors, stock_data.sector)
        THEN <<"sector matches your preferences">> ELSE <<>>)
    \o (IF FLess(F070, strength)
        THEN <<"Strong technical and fundamental indicators">>
        ELSE IF FLess(F050, strength)
        THEN <<"Positive momentum and solid fundamentals">>
        ELSE <<"Decent fundamentals with growth potential">>)

\* RiskProfiler._estimate_target_price, in cents
EstimateTargetPrice(quote) ==
    IF quote.bars < 50 THEN (quote.close * 110) \div 100
    ELSE IF 2 * quote.close < quote.support + quote.resistance
    THEN Min(quote.resistance, (quote.close * 115) \div 100)
    ELSE (quote.close * 108) \div 100

\* The StockRecommendation built from the quote and the strength
Recommendation(stock_data, risk_profile, quote, strength) ==
    [symbol |-> stock_data.symbol,
     company_name |-> stock_data.name,
     sector |-> stock_data.sector,
     risk_rating |-> stock_data.risk,
     recommendation_strength |-> strength,
     target_allocation |->
         Min(risk_profile.max_position_size, 500 + strength.n * 15),
     reasoning |->
         GenerateRecommendationReasoning(stock_data, risk_profile, strength),
     current_price |-> quote.close,
     target_price |-> EstimateTargetPrice(quote)]

\* RiskProfiler._create_stock_recommendation: <<>> for None, else
\* <<recommendation>>
CreateStockRecommendation(stock_data, risk_profile, quote) ==
    IF quote.status = "error" THEN <<>>
    ELSE IF quote.status = "empty" THEN <<>>
    ELSE <<Recommendation(stock_data, risk_profile, quote,
                          StrengthTable[Abs(stock_data.risk - risk_profile.score),
                                        Contains(risk_profile.recommended_sectors,
                                                 stock_data.sector),
                                        quote])>>

\* An insertion in front of the entries that are no stronger: equal
\* strengths end up in reverse order
RECURSIVE InsertBeforeEqual(_, _)
InsertBeforeEqual(sorted, rec) ==
    IF sorted = <<>> THEN <<rec>>
    ELSE IF FLess(rec.recommendation_strength, Head(sorted).recommendation_strength)
    THEN <<Head(sorted)>> \o InsertBeforeEqual(Tail(sorted), rec)
    ELSE <<rec>> \o sorted

\* Insert rec into a list sorted by decreasing strength, behind the entries
\* that are at least as strong
RECURSIVE InsertByStrength(_, _)
InsertByStrength(sorted, rec) ==
    IF sorted = <<>> THEN <<rec>>
    ELSE IF FLess(Head(sorted).recommendation_strength, rec.recommendation_strength)
    THEN <<rec>> \o sorted
    ELSE <<Head(sorted)>> \o InsertByStrength(Tail(sorted), rec)

\* list.sort(key=recommendation_strength, reverse=True): stable
RECURSIVE SortByStrength(_, _)
SortByStrength(sorted, rest) ==
    IF rest = <<>> THEN sorted
    ELSE SortByStrength(InsertByStrength(sorted, Head(rest)), Tail(rest))

\* No truncation
TakeAll(list, n) == list

\* recommendations[:n]
Take(list, n) == SubSeq(list, 1, Min(n, Len(list)))

\* The filter loop without the test of owned symbols
RootCompatibleStocksKeepOwned(universe, risk_profile, owned_symbols, exclude_owned) ==
    SelectSeq(universe,
              LAMBDA data :
                  /\ IsRiskCompatible(data.risk, risk_profile.score)
                  /\ (risk_profile.avoid_sectors = <<>>
                      \/ ~Contains(risk_profile.avoid_sectors, data.sector)))

\* The filter loop of get_stock_recommendations
RootCompatibleStocks(universe, risk_profile, owned_symbols, exclude_owned) ==
    SelectSeq(universe,
              LAMBDA data :
                  /\ ~(Truthy(exclude_owned) /\ data.symbol \in owned_symbols)
                  /\ IsRiskCompatible(data.risk, risk_profile.score)
                  /\ (risk_profile.avoid_sectors = <<>>
                      \/ ~Contains(risk_profile.avoid_sectors, data.sector)))

\* A recommendation loop that stops at the first stock without a
\* recommendation
RECURSIVE RootCreateAllUntilFailure(_, _, _)
RootCreateAllUntilFailure(stocks, risk_profile, market) ==
    IF stocks = <<>> THEN <<>>
    ELSE IF QuoteOf(market, Head(stocks).symbol).status # "ok" THEN <<>>
    ELSE CreateStockRecommendation(Head(stocks), risk_profile,
                                   QuoteOf(market, Head(stocks).symbol))
         \o RootCreateAllUntilFailure(Tail(stocks), risk_profile, market)

\* The recommendation loop: one lookup per compatible stock, None skipped
RECURSIVE RootCreateAll(_, _, _)
RootCreateAll(stocks, risk_profile, market) ==
    IF stocks = <<>> THEN <<>>
    ELSE CreateStockRecommendation(Head(stocks), risk_profile,
                                   QuoteOf(market, Head(stocks).symbol))
         \o RootCreateAll(Tail(stocks), risk_profile, market)

\* RiskProfiler.get_stock_recommendations of src/risk_profiler.py.
\* current_portfolio is Absent for None, else <<list of position records>>;
\* exclude_owned is the third argument, whatever the caller passes
RootGetStockRecommendations(risk_profile, current_portfolio, exclude_owned, market) ==
    LET portfolio == Get(current_portfolio, <<>>)
        collect   == portfolio # <<>> /\ Truthy(exclude_owned)
    IN IF collect /\ \E i \in 1..Len(portfolio) : portfolio[i].symbol = Absent
       THEN [raised |-> "KeyError", result |-> <<>>]
       ELSE LET owned_symbols ==
                    IF collect
                    THEN {portfolio[i].symbol[1] : i \in 1..Len(portfolio)}
                    ELSE {}
                compatible_stocks ==
                    RootCompatibleStocks(RootStockUniverse, risk_profile,
                                         owned_symbols, exclude_owned)
                recommendations ==
                    SortByStrength(<<>>, RootCreateAll(compatible_stocks,
                                                       risk_profile, market))
            IN [raised |-> "", result |-> Take(recommendations, 10)]

(***************************************************************************)
(* get_stock_recommendations, src/alpaca_bot/risk_profiler.py              *)
(***************************************************************************)

\* The filter loop without the test of avoided sectors
BotSuitableStocksKeepAvoided(universe, risk_profile, current_positions) ==
    SelectSeq(universe,
              LAMBDA info :
                  /\ ~Contains(current_positions, info.symbol)
                  /\ info.risk <= risk_profile.score + 2)

\* The filter loop: suitable_stocks
BotSuitableStocks(universe, risk_profile, current_positions) ==
    SelectSeq(universe,
              LAMBDA info :
                  /\ ~Contains(current_positions, info.symbol)
                  /\ info.risk <= risk_profile.score + 2
                  /\ (risk_profile.avoid_sectors = <<>>
                      \/ ~Contains(risk_profile.avoid_sectors, info.sector)))

\* (score - risk + 5) / 10, then min(1.0, .) and max(0.1, .)
BotStrength(score, risk) ==
    Clamp(Lit(10 * (score - risk + 5)), F010, F100)

BotRecommendation(info, risk_profile) ==
    [symbol |-> info.symbol,
     name |-> info.name,
     sector |-> info.sector,
     risk_rating |-> info.risk,
     recommendation_strength |-> BotStrength(risk_profile.score, info.risk),
     target_allocation |-> Min(risk_profile.max_position_size, 1000),
     reasoning |-> <<"Matches your risk profile", risk_profile.level>>,
     current_price |-> 10000,
     target_price |-> 11000]

\* RiskProfiler.get_stock_recommendations of src/alpaca_bot/risk_profiler.py.
\* current_positions is Absent for None, else <<list of symbols>>
BotGetStockRecommendations(risk_profile, current_positions) ==
    LET positions == Get(current_positions, <<>>)
        suitable_stocks == BotSuitableStocks(BotStockUniverse, risk_profile, positions)
        top == Take(suitable_stocks, 5)
    IN [raised |-> "",
        result |-> [i \in 1..Len(top) |-> BotRecommendation(top[i], risk_profile)]]

(***************************************************************************)
(* Calls of get_stock_recommendations                                      *)
(***************************************************************************)

\* Symbols a caller may hold, in the order of the universe, and one symbol
\* outside it
HoldableSymbols(variant) ==
    [i \in 1..Len(StockUniverse(variant)) |-> StockUniverse(variant)[i].symbol]
    \o <<"ZZZ">>

\* The subsets of S of at most n elements
RECURSIVE SubsetsUpTo(_, _)
SubsetsUpTo(S, n) ==
    IF n = 0 THEN {{}}
    ELSE LET smaller == SubsetsUpTo(S, n - 1)
         IN smaller \cup {h \cup {x} : h \in smaller, x \in S}

\* The lists of at most n held symbols (in the order above, no repetition)
HeldLists(variant, n) ==
    LET all == HoldableSymbols(variant)
        range == {all[i] : i \in 1..Len(all)}
    IN {SelectSeq(all, LAMBDA sym : sym \in held) : held \in SubsetsUpTo(range, n)}

\* Portfolios given to the root RiskProfiler: None, or a list of records of
\* one of the two shapes
RootPortfolios ==
    LET lists == HeldLists("root", MaxHoldings)
    IN {Absent}
       \cup {<<[i \in 1..Len(l) |-> CoreHolding(l[i], 100)]>> : l \in lists}
       \cup {<<[i \in 1..Len(l) |-> DashboardHolding(l[i], 100)]>> :
                l \in HeldLists("root", 1) \ {<<>>}}

\* What callers pass as the third argument of the root RiskProfiler: a bool
\* for exclude_owned, or the number of recommendations they want
ThirdArguments == {PyBool(TRUE), PyBool(FALSE), PyInt(5)}

\* Position lists given to the alpaca_bot RiskProfiler: None or symbols
BotPositions ==
    {Absent} \cup {<<l>> : l \in HeldLists("bot", MaxPositions)}

\* One call of get_stock_recommendations on the root RiskProfiler, with the
\* profile of a score as assess_risk_profile returns it
RecommendRoot(score, current_portfolio, exclude_owned, market) ==
    LET risk_profile == risk_profiles.root[score]
        outcome == RootGetStockRecommendations(risk_profile, current_portfolio,
                                               exclude_owned, market)
    IN /\ call' = [op |-> "recommend", variant |-> "root",
                   args |-> [risk_profile |-> risk_profile,
                             holdings |-> current_portfolio,
                             exclude_owned |-> exclude_owned,
                             market |-> market],
                   result |-> outcome.result,
                   raised |-> outcome.raised]
       /\ UNCHANGED risk_profiles

\* One call of get_stock_recommendations on the alpaca_bot RiskProfiler;
\* extra is a third positional argument, which the signature does not take
RecommendBot(score, current_positions, extra) ==
    LET risk_profile == risk_profiles.bot[score]
        outcome == IF extra # Absent
                   THEN [raised |-> "TypeError", result |-> <<>>]
                   ELSE BotGetStockRecommendations(risk_profile, current_positions)
    IN /\ call' = [op |-> "recommend", variant |-> "bot",
                   args |-> [risk_profile |-> risk_profile,
                             holdings |-> current_positions,
                             extra |-> extra],
                   result |-> outcome.result,
                   raised |-> outcome.raised]
       /\ UNCHANGED risk_profiles

\* The caller takes the returned value; the profiler is ready for a new call
Return ==
    /\ ~Idle
    /\ call' = NoCall
    /\ UNCHANGED risk_profiles

Init ==
    /\ risk_profiles = [root |-> RootRiskProfiles, bot |-> BotRiskProfiles]
    /\ call = NoCall
    /\ first = NoCall
    /\ kept = <<>>
    /\ stock_universe = [root |-> RootStockUniverse, bot |-> BotStockUniverse]
    /\ callers = [c \in Callers |-> NotCalling]
    /\ frames = [f \in Callers |-> NoLocals]
    /\ broker = ClosedAccount
    /\ cycle = NoCycle
    /\ run = NoRun

\* A caller makes one call at a time and takes its result before the next
Next ==
    \/ Idle /\ \E user_data \in BotUserData : AssessBot(user_data) /\ UNCHANGED <<first, kept, threads, trading>>
    \/ Idle /\ \E user_data \in RootUserData : AssessRoot(user_data) /\ UNCHANGED <<first, kept, threads, trading>>
    \/ Idle /\ \E score \in 1..10, current_portfolio \in RootPortfolios,
                  exclude_owned \in ThirdArguments, market \in Markets :
            RecommendRoot(score, current_portfolio, exclude_owned, market)
            /\ UNCHANGED <<first, kept, threads, trading>>
    \/ Idle /\ \E score \in 1..10, current_positions \in BotPositions,
                  extra \in {Absent, <<PyInt(5)>>} :
            RecommendBot(score, current_positions, extra) /\ UNCHANGED <<first, kept, threads, trading>>
    \/ Return /\ UNCHANGED <<first, kept, threads, trading>>

Spec == Init /\ [][Next]_vars

(***************************************************************************)
(* Repeated assessments: the first assess call of a run is remembered and  *)
(* every later one is compared with it                                     *)
(***************************************************************************)

DetAnswers == {Absent, <<1 - AnswerSlack>>, <<4>>, <<9>>}

DetBotUserData == BotUserDataOver(DetAnswers)

DetRootUserData ==
    [age : {Absent} \cup {<<a>> : a \in Ages},
     income : {Absent},
     experience : {Absent},
     time_horizon : {<<"long">>},
     risk_tolerance : Labels(tolerance_scores),
     trading_history : {Absent, <<<<[symbol |-> "TSLA"]>>>>}]

DetMarkets == {m \in Markets : m.residue = 0 /\ m.quote \in {QBull, QError}}

Remember ==
    first' = IF first.op = "none" /\ call'.op = "assess" THEN call' ELSE first

NextDet ==
    \/ Idle /\ \E user_data \in DetBotUserData : AssessBot(user_data) /\ Remember /\ UNCHANGED <<kept, threads, trading>>
    \/ Idle /\ \E user_data \in DetRootUserData : AssessRoot(user_data) /\ Remember /\ UNCHANGED <<kept, threads, trading>>
    \/ Idle /\ \E score \in 1..10, market \in DetMarkets :
            RecommendRoot(score, Absent, PyBool(TRUE), market) /\ UNCHANGED <<first, kept, threads, trading>>
    \/ Idle /\ \E score \in 1..10 :
            RecommendBot(score, Absent, Absent) /\ UNCHANGED <<first, kept, threads, trading>>
    \/ Return /\ UNCHANGED <<first, kept, threads, trading>>

SpecDet == Init /\ [][NextDet]_vars

(***************************************************************************)
(* Properties                                                              *)
(***************************************************************************)

Assessed(variant) == call.op = "assess" /\ call.variant = variant

Recommended == call.op = "recommend" /\ call.raised = ""

\* The fields of a profile that come from the static table
Content(profile) ==
    [score |-> profile.score, level |-> profile.level,
     description |-> profile.description, allocation |-> profile.allocation,
     max_position_size |-> profile.max_position_size,
     recommended_sectors |-> profile.recommended_sectors,
     avoid_sectors |-> profile.avoid_sectors]

\* The three answers of a 3-question user_data are all given and in 1..10
ValidAnswers(user_data) ==
    \A entry \in {user_data.q1_risk_tolerance, user_data.q2_investment_experience,
                  user_data.q3_time_horizon} :
        entry # Absent /\ entry[1] \in 1..10

\* C1: for answers that are integers in 1..10, assess_risk_profile returns a
\* score in 1..10 and a profile whose level is that of the table entry of the
\* score, the value of the level being the score
C1_ScoreAndLevel ==
    (Assessed("bot") /\ ValidAnswers(call.args)) =>
        /\ call.result[1] \in 1..10
        /\ call.result[2].level = BotRiskProfiles[call.result[1]].level
        /\ RiskLevel[call.result[2].level] = call.result[1]

\* C1 happens: valid answers whose weighted sum 8.7 rounds to the score 9
C1_Witness ==
    /\ Assessed("bot") /\ ValidAnswers(call.args)
    /\ call.args.q1_risk_tolerance = <<9>>
    /\ call.args.q2_investment_experience = <<8>>
    /\ call.result[1] = 9
    /\ call.result[2].level = "VERY_AGGRESSIVE"

\* The symbols of the holdings given to a get_stock_recommendations call
HeldSymbols ==
    LET holdings == Get(call.args.holdings, <<>>)
    IN IF call.variant = "bot"
       THEN {holdings[i] : i \in 1..Len(holdings)}
       ELSE {Get(holdings[i].symbol, Get(holdings[i].Symbol, "")) :
                i \in 1..Len(holdings)}

\* C2, as claimed: get_stock_recommendations never returns a recommendation
\* whose symbol is in the holdings
C2_NeverHeld ==
    Recommended =>
        \A i \in 1..Len(call.result) : call.result[i].symbol \notin HeldSymbols

\* C2, amended: called with exclude_owned true (its default) it never returns
\* a recommendation whose symbol is in the holdings
C2_NeverHeldWhenExcluding ==
    (Recommended /\ (call.variant = "bot" \/ Truthy(call.args.exclude_owned))) =>
        \A i \in 1..Len(call.result) : call.result[i].symbol \notin HeldSymbols

\* C2 happens: a held symbol that passes the risk and sector filters of the
\* profile is left out of a non-empty result
C2_Witness ==
    /\ Recommended /\ call.variant = "root" /\ Truthy(call.args.exclude_owned)
    /\ "AAPL" \in HeldSymbols
    /\ call.args.risk_profile.score = 5
    /\ call.result # <<>>

\* C3: the returned list is sorted non-increasing by recommendation_strength
C3_SortedByStrength ==
    Recommended =>
        \A i \in 1..(Len(call.result) - 1) :
            ~FLess(call.result[i].recommendation_strength,
                   call.result[i + 1].recommendation_strength)

\* C4: every returned recommendation has a strength in [0,1] and a
\* target_allocation of at most the max_position_size of the profile
C4_StrengthAndAllocationBounded ==
    Recommended =>
        \A i \in 1..Len(call.result) :
            /\ ~FLess(call.result[i].recommendation_strength, F000)
            /\ ~FLess(F100, call.result[i].recommendation_strength)
            /\ call.result[i].target_allocation
                   <= call.args.risk_profile.max_position_size

\* C4 happens: a recommendation whose strength was capped at 1 and whose
\* allocation was cut to max_position_size
C4_Witness ==
    /\ Recommended /\ call.variant = "root"
    /\ \E i \in 1..Len(call.result) :
           /\ call.result[i].recommendation_strength = F100
           /\ call.args.market.quote = QBull
           /\ call.result[i].target_allocation
                  = call.args.risk_profile.max_position_size
           /\ call.result[i].target_allocation < 500 + 100 * 15

\* The number of entries the caller of the call asks for: the third argument
\* when it is a number, else the default 10
RequestedLimit ==
    IF call.variant = "root" /\ call.args.exclude_owned.type = "int"
    THEN call.args.exclude_owned.int
    ELSE 10

\* C5, as claimed: get_stock_recommendations(profile, holdings, limit)
\* returns at most limit entries, at most 10 when no limit is given
C5_AtMostRequestedLimit ==
    Recommended => Len(call.result) <= RequestedLimit

\* The fixed cap of each RiskProfiler
Limit(variant) == IF variant = "root" THEN 10 ELSE 5

\* C5, amended: get_stock_recommendations takes no limit; it returns at most
\* 10 entries (src/risk_profiler.py) or at most 5 (alpaca_bot)
C5_AtMostLimit ==
    Recommended => Len(call.result) <= Limit(call.variant)

\* C5 happens: more candidates than the cap pass the filters and the
\* result has exactly as many entries as the cap
C5_Witness ==
    /\ Recommended /\ call.variant = "root"
    /\ call.args.market.quote = QNeutral
    /\ call.args.holdings = Absent
    /\ Len(RootCompatibleStocks(RootStockUniverse, call.args.risk_profile, {},
                                call.args.exclude_owned)) > 10
    /\ Len(call.result) = 10

\* C6: every returned recommendation has a risk rating within 2 of the score
\* of the profile
C6_WithinRiskWindow ==
    Recommended =>
        \A i \in 1..Len(call.result) :
            Abs(call.result[i].risk_rating - call.args.risk_profile.score) <= 2

\* C7: no returned recommendation has a sector of the avoid_sectors of the
\* profile
C7_NoAvoidedSector ==
    Recommended =>
        \A i \in 1..Len(call.result) :
            ~Contains(call.args.risk_profile.avoid_sectors, call.result[i].sector)

\* C7 happens: a symbol that is not held and passes the risk filter is left
\* out of a non-empty result because of its sector
C7_Witness ==
    /\ Recommended /\ call.variant = "bot"
    /\ call.result # <<>>
    /\ \E k \in 1..Len(BotStockUniverse) :
           /\ BotStockUniverse[k].symbol \notin HeldSymbols
           /\ BotStockUniverse[k].risk <= call.args.risk_profile.score + 2
           /\ Contains(call.args.risk_profile.avoid_sectors, BotStockUniverse[k].sector)
           /\ \A i \in 1..Len(call.result) :
                  call.result[i].symbol # BotStockUniverse[k].symbol

\* The questionnaire part of a user_data (the identity overlay left out)
Questionnaire(variant, user_data) ==
    IF variant = "bot"
    THEN <<user_data.q1_risk_tolerance, user_data.q2_investment_experience,
           user_data.q3_time_horizon>>
    ELSE <<user_data>>

SameQuestionnaire ==
    /\ first.op = "assess" /\ call.op = "assess"
    /\ call.variant = first.variant
    /\ Questionnaire(call.variant, call.args) = Questionnaire(first.variant, first.args)

\* C8: an assess call with the questionnaire of the first assess call of the
\* run returns the same score and the same profile fields, whatever was
\* called in between
C8_Deterministic ==
    SameQuestionnaire =>
        /\ call.result[1] = first.result[1]
        /\ Content(call.result[2]) = Content(first.result[2])

\* C8 happens: a later call with the same answers as the first one (and
\* another identity overlay, so it is another call)
C8_Witness ==
    /\ SameQuestionnaire
    /\ call.variant = "bot"
    /\ call.args # first.args
    /\ call.result[1] = 7

C10_MissingIsMidpoint ==
    Assessed("bot") =>
        /\ call.raised = ""
        /\ call.result[1] = FinalScore(Get(call.args.q1_risk_tolerance, 5),
                                       Get(call.args.q2_investment_experience, 5),
                                       Get(call.args.q3_time_horizon, 5))
        /\ (/\ call.args.q1_risk_tolerance = Absent
            /\ call.args.q2_investment_experience = Absent
            /\ call.args.q3_time_horizon = Absent) => call.result[1] = 5

\* C10 happens: one answer is missing and the other two are given
C10_Witness ==
    /\ Assessed("bot")
    /\ call.args.q1_risk_tolerance = <<10>>
    /\ call.args.q2_investment_experience = Absent
    /\ call.args.q3_time_horizon = <<10>>
    /\ call.result[1] = 8

(***************************************************************************)
(* Profiles kept by callers: a caller keeps the object an assess call      *)
(* returned and writes to it later                                         *)
(***************************************************************************)

MaxKept == 1

\* The object a call of assess_risk_profile hands out: the root profiler
\* returns self.risk_profiles[final_score], the entry of its table; the
\* alpaca_bot profiler returns a new RiskProfile whose allocation and sector
\* lists are copies of the entry's
HandedOut(c) ==
    IF c.variant = "root"
    THEN [entry |-> <<c.result[1]>>, own |-> Absent]
    ELSE [entry |-> Absent, own |-> <<c.result[2]>>]

\* What a caller may write to a profile it holds: a field, an entry of the
\* allocation dict, the contents of the sector lists
Writes == {"max_position_size", "allocation", "avoid_sectors", "recommended_sectors"}

Written(profile, w) ==
    CASE w = "max_position_size" -> [profile EXCEPT !.max_position_size = 5000]
      [] w = "allocation" -> [profile EXCEPT !.allocation.stocks = 100]
      [] w = "avoid_sectors" -> [profile EXCEPT !.avoid_sectors = <<>>]
      [] w = "recommended_sectors" ->
             [profile EXCEPT !.recommended_sectors = <<"ENERGY">> \o Tail(@)]

\* The caller keeps the profile that the assess call returned
Keep ==
    /\ call.op = "assess"
    /\ Len(kept) < MaxKept
    /\ kept' = Append(kept, HandedOut(call))
    /\ call' = NoCall
    /\ UNCHANGED <<risk_profiles, first, threads, trading>>

\* The caller writes to a profile it kept: the write lands in the object the
\* profile is, a table entry or the caller's own object
Write(i, w) ==
    /\ IF kept[i].entry # Absent
       THEN /\ risk_profiles' =
                   [risk_profiles EXCEPT !.root[kept[i].entry[1]] = Written(@, w)]
            /\ UNCHANGED kept
       ELSE /\ kept' = [kept EXCEPT ![i].own = <<Written(@[1], w)>>]
            /\ UNCHANGED risk_profiles
    /\ UNCHANGED <<call, first, threads, trading>>

NextKept ==
    \/ Idle /\ \E user_data \in BotUserDataOver({Absent, <<1>>, <<9>>}) :
            AssessBot(user_data) /\ UNCHANGED <<first, kept, threads, trading>>
    \/ Idle /\ \E user_data \in DetRootUserData :
            AssessRoot(user_data) /\ UNCHANGED <<first, kept, threads, trading>>
    \/ Keep
    \/ Idle /\ \E i \in DOMAIN kept, w \in Writes : Write(i, w)
    \/ Return /\ UNCHANGED <<first, kept, threads, trading>>

SpecKept == Init /\ [][NextKept]_vars

\* C11: after any sequence of assess calls and of caller writes to the
\* profiles those calls returned, every entry of both profile tables is what
\* it was after construction
C11_TableNeverMutated ==
    risk_profiles = [root |-> RootRiskProfiles, bot |-> BotRiskProfiles]

\* The alpaca_bot half of C11: writes to profiles its assess returned leave
\* its table as constructed
C11_BotTableNeverMutated == risk_profiles.bot = BotRiskProfiles

\* A caller has written to a kept alpaca_bot profile
C11_BotWritten ==
    \E i \in DOMAIN kept :
        /\ kept[i].own # Absent
        /\ kept[i].own[1].allocation # risk_profiles.bot[kept[i].own[1].score].allocation

(***************************************************************************)
(* Worked examples of the 3-question assessment                            *)
(***************************************************************************)

\* The call is an alpaca_bot assessment of the answers (q1, q2, q3)
AssessedAnswers(q1, q2, q3) ==
    /\ Assessed("bot")
    /\ call.args.q1_risk_tolerance = <<q1>>
    /\ call.args.q2_investment_experience = <<q2>>
    /\ call.args.q3_time_horizon = <<q3>>

\* C12: the answers (9, 8, 9) give score 9 and level VERY_AGGRESSIVE; the
\* answers (1, 1, 1) give score 1, level VERY_LOW and max_position_size 0.05
C12_WorkedExamples ==
    /\ AssessedAnswers(9, 8, 9) =>
           /\ call.result[1] = 9
           /\ call.result[2].score = 9
           /\ call.result[2].level = "VERY_AGGRESSIVE"
    /\ AssessedAnswers(1, 1, 1) =>
           /\ call.result[1] = 1
           /\ call.result[2].score = 1
           /\ call.result[2].level = "VERY_LOW"
           /\ call.result[2].max_position_size = 500

\* C12 happens: the answers (9, 8, 9) were assessed, their weighted score
\* being 8.7
C12_Witness ==
    /\ AssessedAnswers(9, 8, 9)
    /\ WeightedScore(9, 8, 9).n = 870
    /\ call.raised = ""

(***************************************************************************)
(* Callers that hold everything a profile is eligible for                  *)
(***************************************************************************)

\* The universe symbols that pass the risk and sector filters of the table
\* profile of a score, in the order of the universe
EligibleSymbols(variant, score) ==
    LET stocks == IF variant = "root"
                  THEN RootCompatibleStocks(RootStockUniverse, RootRiskProfiles[score],
                                            {}, PyBool(TRUE))
                  ELSE BotSuitableStocks(BotStockUniverse, BotRiskProfiles[score], <<>>)
    IN [i \in 1..Len(stocks) |-> stocks[i].symbol]

\* Held symbols: all that are eligible for some score, or all but the first
FullLists(variant) ==
    {EligibleSymbols(variant, score) : score \in 1..10}
    \cup {Tail(EligibleSymbols(variant, score)) : score \in 1..10}

NextHeldAll ==
    \/ Idle /\ \E score \in 1..10, l \in FullLists("root"),
                  exclude_owned \in {PyBool(TRUE), PyBool(FALSE)}, market \in Markets :
            RecommendRoot(score, <<[i \in 1..Len(l) |-> CoreHolding(l[i], 100)]>>,
                          exclude_owned, market)
            /\ UNCHANGED <<first, kept, threads, trading>>
    \/ Idle /\ \E score \in 1..10, l \in FullLists("bot") :
            RecommendBot(score, <<l>>, Absent) /\ UNCHANGED <<first, kept, threads, trading>>
    \/ Return /\ UNCHANGED <<first, kept, threads, trading>>

SpecHeldAll == Init /\ [][NextHeldAll]_vars

\* No symbol of the universe passes the filters of the call: each is held
\* (and held symbols are excluded), outside the risk window of the variant,
\* or in a sector the profile avoids
NothingPasses ==
    LET universe == StockUniverse(call.variant)
        profile == call.args.risk_profile
    IN \A k \in 1..Len(universe) :
           \/ /\ call.variant = "root" => Truthy(call.args.exclude_owned)
              /\ universe[k].symbol \in HeldSymbols
           \/ IF call.variant = "root"
              THEN ~IsRiskCompatible(universe[k].risk, profile.score)
              ELSE universe[k].risk > profile.score + 2
           \/ Contains(profile.avoid_sectors, universe[k].sector)

\* The call gives get_stock_recommendations the arguments of its signature
BySignature == call.variant = "bot" => call.args.extra = Absent

\* C13: when no universe symbol passes the filters, get_stock_recommendations
\* raises nothing and returns the empty list
C13_EmptyWhenNothingPasses ==
    (call.op = "recommend" /\ BySignature /\ NothingPasses) =>
        /\ call.raised = ""
        /\ call.result = <<>>

\* C13 happens: a root call whose caller holds every symbol that is eligible
\* for the profile, with prices available, returned
C13_Witness ==
    /\ call.op = "recommend" /\ call.variant = "root"
    /\ NothingPasses
    /\ call.args.holdings # Absent /\ Len(call.args.holdings[1]) >= 6
    /\ call.args.market.quote = QBull
    /\ call.result = <<>>

(***************************************************************************)
(* Errors that reach the caller                                            *)
(***************************************************************************)

\* C14: for every profile and every holdings list, the position records of
\* the dashboard included, a call that is made by the signature of the
\* operation returns a value and raises nothing
C14_NeverRaises ==
    (/\ call.op # "none"
     /\ call.op = "recommend" =>
            /\ BySignature
            /\ call.variant = "root" => call.args.exclude_owned.type = "bool")
        => call.raised = ""

(***************************************************************************)
(* Failed price lookups                                                    *)
(***************************************************************************)

\* The stocks that pass the filters of a root call that returned
Eligible ==
    RootCompatibleStocks(RootStockUniverse, call.args.risk_profile, HeldSymbols,
                         call.args.exclude_owned)

\* The answer of the market-data provider for a stock
LookupOf(stock) == QuoteOf(call.args.market, stock.symbol).status

InResult(sym) == \E i \in 1..Len(call.result) : call.result[i].symbol = sym

\* The strength the call computes for a stock
StrengthOf(stock) ==
    StrengthTable[Abs(stock.risk - call.args.risk_profile.score),
                  Contains(call.args.risk_profile.recommended_sectors, stock.sector),
                  QuoteOf(call.args.market, stock.symbol)]

\* An eligible symbol whose lookup raises is in the result
FailedStillRecommended(eligible) ==
    \A k \in 1..Len(eligible) :
        LookupOf(eligible[k]) = "error" => InResult(eligible[k].symbol)

\* C15: an eligible symbol whose price lookup raises is still recommended,
\* with placeholder price data (here: whenever all eligible symbols fit into
\* the result)
C15_FailedLookupStillRecommended ==
    (Recommended /\ call.variant = "root" /\ Len(Eligible) <= 10) =>
        FailedStillRecommended(Eligible)

\* The result holds the recommendations of the stocks whose lookup
\* succeeded, ranked by decreasing strength: all of them if they are at most
\* n, else n that are at least as strong as every one left out
RankedSucceeded(succeeded, n) ==
    /\ Len(call.result) = Min(n, Len(succeeded))
    /\ \A i \in 1..Len(call.result) :
           \E k \in 1..Len(succeeded) :
               /\ succeeded[k].symbol = call.result[i].symbol
               /\ StrengthOf(succeeded[k]) = call.result[i].recommendation_strength
    /\ \A i \in 1..(Len(call.result) - 1) :
           /\ ~FLess(call.result[i].recommendation_strength,
                     call.result[i + 1].recommendation_strength)
           /\ \A j \in (i + 1)..Len(call.result) :
                  call.result[i].symbol # call.result[j].symbol
    /\ \/ Len(succeeded) <= n
       \/ \A k \in 1..Len(succeeded) :
              \/ InResult(succeeded[k].symbol)
              \/ ~FLess(call.result[Len(call.result)].recommendation_strength,
                        StrengthOf(succeeded[k]))

\* C16: whichever eligible symbols fail their price lookup (it raises, or it
\* returns no price history), the call returns, ranked by decreasing
\* strength, the recommendations of the symbols whose lookup succeeded, up to
\* 10 of them
C16_OthersStillRanked ==
    (Recommended /\ call.variant = "root") =>
        RankedSucceeded(SelectSeq(Eligible, LAMBDA stock : LookupOf(stock) = "ok"), 10)

\* C16 happens: the first eligible symbol failed its lookup, later ones did
\* not, and those were returned
C16_Witness ==
    /\ Recommended /\ call.variant = "root"
    /\ Len(Eligible) >= 3
    /\ LookupOf(Eligible[1]) = "error"
    /\ \E k \in 2..Len(Eligible) : LookupOf(Eligible[k]) = "ok"
    /\ Len(call.result) >= 2

(***************************************************************************)
(* calculate_portfolio_risk_score                                          *)
(*                                                                         *)
(* market_value of a position record is in cents.  The numbers of one call *)
(* are floats in units of 2^e: e is 0 unless the total value is a power of *)
(* two 2^-e below 2^-5 (what the float sum of decimal values that cancel   *)
(* leaves), in which case every weight is a market value times 2^e and the *)
(* float operations on the weights are those on the market values.         *)
(***************************************************************************)

MaxPortfolio == 3

\* position.get('market_value', 0)
MarketValue(position) ==
    IF position.market_value = Absent THEN Dec(0)
    ELSE Lit(position.market_value[1])

\* sum(pos.get('market_value', 0) for pos in portfolio), from acc on
RECURSIVE SumValues(_, _)
SumValues(positions, acc) ==
    IF positions = <<>> THEN acc
    ELSE SumValues(Tail(positions), FAdd(acc, MarketValue(Head(positions))))

\* self.stock_universe.get(symbol, ...) with the defaults risk 5 and
\* Sector.TECHNOLOGY, for symbol = position.get('symbol', '')
StockInfo(variant, position) ==
    LET universe == StockUniverse(variant)
        found == {k \in 1..Len(universe) :
                      universe[k].symbol = Get(position.symbol, "")}
    IN IF found = {} THEN [risk |-> 5, sector |-> "TECHNOLOGY"]
       ELSE [risk |-> universe[CHOOSE k \in found : TRUE].risk,
             sector |-> universe[CHOOSE k \in found : TRUE].sector]

\* The unit 2^e of the numbers of a call with this total value
UnitOf(total_value) ==
    IF total_value.n # 0 THEN 0
    ELSE 57 - (CHOOSE j \in 2..7 : 25 * Pow2(j) = Abs(total_value.d))

\* The number 1 in units of 2^e
One(e) == IF e = 0 THEN Dec(100) ELSE [n |-> 0, d |-> 25 * Pow2(57 - e)]

\* weight = market_value / total_value, in units of 2^e
Weight(market_value, total_value, e) ==
    IF market_value = total_value THEN One(e)
    ELSE IF market_value = Dec(0) THEN Dec(0)
    ELSE IF e # 0 THEN (IF FIsNeg(total_value) THEN FNeg(market_value)
                       ELSE market_value)
    ELSE IF total_value.n < 0
    THEN Lit((-100 * market_value.n) \div (-total_value.n))
    ELSE Lit((100 * market_value.n) \div total_value.n)

\* weighted_risk += stock_risk * weight, over the positions
RECURSIVE WeightedRisk(_, _, _, _, _)
WeightedRisk(variant, positions, total_value, e, acc) ==
    IF positions = <<>> THEN acc
    ELSE WeightedRisk(variant, Tail(positions), total_value, e,
             FAdd(acc, FMulInt(StockInfo(variant, Head(positions)).risk,
                               Weight(MarketValue(Head(positions)), total_value, e))))

\* sector_weights[sector] after the loop, for a sector of the portfolio
RECURSIVE SectorWeight(_, _, _, _, _, _)
SectorWeight(variant, positions, sector, total_value, e, acc) ==
    IF positions = <<>> THEN acc
    ELSE SectorWeight(variant, Tail(positions), sector, total_value, e,
             IF StockInfo(variant, Head(positions)).sector = sector
             THEN FAdd(acc, Weight(MarketValue(Head(positions)), total_value, e))
             ELSE acc)

\* The sector_weights dict: sector -> weight
SectorWeights(variant, positions, total_value, e) ==
    [sector \in {StockInfo(variant, positions[i]).sector : i \in 1..Len(positions)} |->
        SectorWeight(variant, positions, sector, total_value, e, Dec(0))]

\* A float of the call as a number of the result: [n, d, e] stands for
\* (n/100 + d * 2^-57/25) * 2^e, with e = 0 wherever that is possible
Num(x, e) ==
    IF e = 0 \/ (x.n = 0 /\ x.d = 0) THEN [n |-> x.n, d |-> x.d, e |-> 0]
    ELSE IF x.n = 0 /\ x.d % Pow2(55 - e) = 0
    THEN [n |-> x.d \div Pow2(55 - e), d |-> 0, e |-> 0]
    ELSE [n |-> x.n, d |-> x.d, e |-> e]

Zero == [n |-> 0, d |-> 0, e |-> 0]

\* The float of a number with e = 0
FloatOf(num) == [n |-> num.n, d |-> num.d]

\* num > c/100 and num < c/100 for a literal c/100 of the source; a number
\* with e > 0 is beyond every literal
Above(num, c) == IF num.e = 0 THEN FLess(Lit(c), FloatOf(num)) ELSE num.n > 0

Below(num, c) == IF num.e = 0 THEN FLess(FloatOf(num), Lit(c)) ELSE num.n < 0

\* round(x, 1) of a float: the double nearest to the nearest tenth
PyRound1(x) ==
    LET tenths == x.n \div 10
        rest == x.n % 10
    IN Lit(10 * (IF rest < 5 THEN tenths
                 ELSE IF rest > 5 THEN tenths + 1
                 ELSE IF x.d > 0 THEN tenths + 1
                 ELSE IF x.d < 0 THEN tenths
                 ELSE IF tenths % 2 = 0 THEN tenths ELSE tenths + 1))

\* round(weighted_risk, 1): a number with e > 0 has no digit behind the
\* point and is returned as it is
RoundedScore(num) ==
    IF num.e = 0 THEN Num(PyRound1(FloatOf(num)), 0) ELSE num

\* max(sector_allocation.values())
MaxWeight(weights) ==
    CHOOSE x \in {weights[s] : s \in DOMAIN weights} :
        \A s \in DOMAIN weights : ~FLess(x, weights[s])

\* The level of the alpaca_bot variant: the interval [k, k + 1) that holds
\* weighted_risk, 'Moderate' if none does
BotLevelNames ==
    <<"Very Low", "Low", "Low-Moderate", "Moderate", "Moderate-High", "High",
      "High-Aggressive", "Aggressive", "Very Aggressive", "Extreme">>

BotLevel(num) ==
    LET holds == {k \in 1..10 : /\ num.e = 0
                                /\ ~FLess(FloatOf(num), Dec(100 * k))
                                /\ FLess(FloatOf(num), Dec(100 * (k + 1)))}
    IN IF holds = {} THEN "Moderate" ELSE BotLevelNames[CHOOSE k \in holds : TRUE]

\* diversification = 1 - max(sector_allocation.values())
BotDiversification(weights, e) ==
    Num(FAdd(One(e), FNeg(MaxWeight(weights))), e)

\* RiskProfiler.calculate_portfolio_risk_score of src/alpaca_bot/risk_profiler.py
BotCalculatePortfolioRiskScore(positions) ==
    IF positions = <<>>
    THEN [score |-> Zero, level |-> "No Positions", diversification |-> Zero]
    ELSE IF SumValues(positions, Dec(0)) = Dec(0)
    THEN [score |-> Zero, level |-> "No Value", diversification |-> Zero]
    ELSE LET total_value == SumValues(positions, Dec(0))
             e == UnitOf(total_value)
             weighted_risk ==
                 Num(WeightedRisk("bot", positions, total_value, e, Dec(0)), e)
         IN [score |-> RoundedScore(weighted_risk),
             level |-> BotLevel(weighted_risk),
             diversification |->
                 BotDiversification(SectorWeights("bot", positions, total_value, e), e)]

\* _get_risk_level_name(int(round(weighted_risk)))
RootLevelNames ==
    <<"Very Low Risk", "Low Risk", "Low-Moderate Risk", "Moderate Risk",
      "Moderate-High Risk", "High Risk", "High-Aggressive Risk", "Aggressive Risk",
      "Very Aggressive Risk", "Extreme Risk">>

GetRiskLevelName(num) ==
    IF num.e = 0 /\ PyRound(FloatOf(num)) \in 1..10
    THEN RootLevelNames[PyRound(FloatOf(num))]
    ELSE "Moderate Risk"

\* hhi = sum(weight ** 2), in 1/10000, of weights that are hundredths
Hhi(weights) ==
    LET sq == [s \in DOMAIN weights |-> weights[s].n * weights[s].n]
        sum[S \in SUBSET DOMAIN weights] ==
            IF S = {} THEN 0
            ELSE LET s == CHOOSE t \in S : TRUE IN sq[s] + sum[S \ {s}]
    IN sum[DOMAIN weights]

\* _calculate_diversification_score, in 1/100000:
\* 1 - (hhi - 1/11) / (1 - 1/11) is 1.1 * (1 - hhi), then max(0, min(1, .));
\* a weight with e > 0 makes hhi exceed 1
DiversificationScore(weights) ==
    IF \E s \in DOMAIN weights : weights[s].e > 0 THEN 0
    ELSE Max(0, Min(100000, 11 * (10000 - Hhi(weights))))

\* round(diversification_score, 2): the double nearest to the nearest
\* hundredth
RoundedDiversification(score) ==
    Num(Lit((score + 500) \div 1000), 0)

\* _get_portfolio_recommendations: the advice given and the sectors warned
\* of (the text of a warning also holds the weight as a percentage)
GetPortfolioRecommendations(risk_score, diversification_score, sector_weights) ==
    [diversify |-> diversification_score < 30000,
     concentrated |-> {s \in DOMAIN sector_weights : Above(sector_weights[s], 40)},
     risk |-> IF Above(risk_score, 800) THEN "very high"
              ELSE IF Below(risk_score, 300) THEN "very conservative"
              ELSE ""]

\* The part of the result that is computed from the weights
RootRiskMetrics(weighted_risk, sector_weights) ==
    [score |-> RoundedScore(weighted_risk),
     level |-> GetRiskLevelName(weighted_risk),
     diversification |-> RoundedDiversification(DiversificationScore(sector_weights)),
     sector_allocation |-> sector_weights,
     recommendations |->
         GetPortfolioRecommendations(weighted_risk,
                                     DiversificationScore(sector_weights),
                                     sector_weights)]

NumWeights(weights, e) == [s \in DOMAIN weights |-> Num(weights[s], e)]

\* RiskProfiler.calculate_portfolio_risk_score of src/risk_profiler.py
RootCalculatePortfolioRiskScore(portfolio) ==
    IF portfolio = <<>>
    THEN [score |-> Zero, level |-> "No Portfolio", diversification |-> Zero]
    ELSE IF SumValues(portfolio, Dec(0)) = Dec(0)
    THEN [score |-> Zero, level |-> "No Value", diversification |-> Zero]
    ELSE LET total_value == SumValues(portfolio, Dec(0))
             e == UnitOf(total_value)
         IN RootRiskMetrics(
                Num(WeightedRisk("root", portfolio, total_value, e, Dec(0)), e),
                NumWeights(SectorWeights("root", portfolio, total_value, e), e))

(***************************************************************************)
(* Calls of calculate_portfolio_risk_score                                 *)
(***************************************************************************)

\* Market values in cents: whole dollars, long and short, and the decimal
\* values 1.10, 2.20 and -3.30, which add up to nothing
PositionValues == {-5000, -330, 0, 110, 220, 600, 3700, 5700, 10000}

\* Symbols of two sectors and one symbol outside the universe
PositionSymbols == {"KO", "AAPL", "ZZZ"}

PositionRecords ==
    {CoreHolding(sym, value) : sym \in PositionSymbols, value \in PositionValues}
    \cup {DashboardHolding("AAPL", 10000)}

\* Every partial sum of the market values is below 128 dollars
RECURSIVE InRange(_, _)
InRange(positions, cents) ==
    /\ Abs(cents) < 12800
    /\ positions # <<>> =>
           InRange(Tail(positions), cents + MarketValue(Head(positions)).n)

\* market_value / total_value is a whole number of hundredths, so that the
\* weight is the double nearest to it
ExactQuotient(market_value, total_value) ==
    \/ market_value = total_value
    \/ market_value = Dec(0)
    \/ /\ market_value.d = 0 /\ total_value.d = 0
       /\ (100 * Abs(market_value.n)) % Abs(total_value.n) = 0

\* A number with e > 0 is of the size of 2^49 at least
Faithful(num) == num.e = 0 \/ (num.e >= 50 /\ Abs(num.n) >= 50)

\* The numbers of the call stay within the floats described above
Representable(variant, positions, total_value) ==
    \/ total_value = Dec(0)
    \/ /\ total_value.n # 0
       /\ \A i \in 1..Len(positions) :
              ExactQuotient(MarketValue(positions[i]), total_value)
       /\ (11 * (10000 - Hhi(NumWeights(SectorWeights(variant, positions,
                                                      total_value, 0), 0)))) % 1000 # 500
    \/ /\ total_value.n = 0
       /\ \E j \in 2..7 : 25 * Pow2(j) = Abs(total_value.d)
       /\ Faithful(Num(WeightedRisk(variant, positions, total_value,
                                    UnitOf(total_value), Dec(0)),
                       UnitOf(total_value)))
       /\ \A num \in {NumWeights(SectorWeights(variant, positions, total_value,
                                               UnitOf(total_value)),
                                 UnitOf(total_value))[s] :
                          s \in {StockInfo(variant, positions[i]).sector :
                                     i \in 1..Len(positions)}} : Faithful(num)
       /\ Faithful(BotDiversification(SectorWeights(variant, positions, total_value,
                                                    UnitOf(total_value)),
                                      UnitOf(total_value)))

\* The position lists given to calculate_portfolio_risk_score
Portfolios(variant) ==
    {p \in SeqsUpTo(PositionRecords, MaxPortfolio) :
         InRange(p, 0) /\ Representable(variant, p, SumValues(p, Dec(0)))}

\* One call of calculate_portfolio_risk_score
PortfolioRisk(variant, positions) ==
    /\ call' = [op |-> "portfolio_risk", variant |-> variant,
                args |-> [holdings |-> positions],
                result |-> IF variant = "root"
                           THEN RootCalculatePortfolioRiskScore(positions)
                           ELSE BotCalculatePortfolioRiskScore(positions),
                raised |-> ""]
    /\ UNCHANGED risk_profiles

NextPortfolio ==
    \/ Idle /\ \E positions \in Portfolios("root") :
            PortfolioRisk("root", positions) /\ UNCHANGED <<first, kept, threads, trading>>
    \/ Idle /\ \E positions \in Portfolios("bot") :
            PortfolioRisk("bot", positions) /\ UNCHANGED <<first, kept, threads, trading>>
    \/ Return /\ UNCHANGED <<first, kept, threads, trading>>

SpecPortfolio == Init /\ [][NextPortfolio]_vars

(***************************************************************************)
(* Properties of the portfolio risk score                                  *)
(***************************************************************************)

\* The last call was calculate_portfolio_risk_score
Scored == call.op = "portfolio_risk"

\* The symbol of the position is in the stock universe of the variant
InUniverse(variant, position) ==
    \E k \in 1..Len(StockUniverse(variant)) :
        StockUniverse(variant)[k].symbol = Get(position.symbol, "")

\* All positions fall in one sector
OneSector(variant, positions) ==
    \A i, j \in 1..Len(positions) :
        StockInfo(variant, positions[i]).sector = StockInfo(variant, positions[j]).sector

\* The market values of the positions, in cents, add up to total
RECURSIVE AddUpTo(_, _)
AddUpTo(positions, total) ==
    IF positions = <<>> THEN total = 0
    ELSE AddUpTo(Tail(positions), total - Get(Head(positions).market_value, 0))

\* 0 <= num <= 1
InUnitInterval(num) ==
    /\ num.e = 0
    /\ ~FIsNeg(FloatOf(num))
    /\ ~FLess(Dec(100), FloatOf(num))

SingleHoldingScore(variant, positions, result) ==
    (/\ Len(positions) = 1
     /\ Get(positions[1].market_value, 0) > 0
     /\ InUniverse(variant, positions[1]))
        => result.score = Num(Dec(100 * StockInfo(variant, positions[1]).risk), 0)

\* C17: the risk score of a portfolio of one holding with a positive market
\* value and a symbol of the stock universe is that symbol's risk rating,
\* and the diversification score of every portfolio whose holdings all fall
\* in one sector is 0.
C17_SingleHoldingAndSingleSector ==
    Scored =>
        /\ SingleHoldingScore(call.variant, call.args.holdings, call.result)
        /\ OneSector(call.variant, call.args.holdings)
               => call.result.diversification = Zero

\* C18: for an empty holdings list and for holdings whose market values add
\* up to zero the call returns, without an error, score 0 and
\* diversification 0.
C18_ZeroValueGivesZero ==
    (Scored /\ AddUpTo(call.args.holdings, 0)) =>
        /\ call.raised = ""
        /\ call.result.score = Zero
        /\ call.result.diversification = Zero

\* C19: the diversification score lies in [0, 1]; it is 1 only for a
\* portfolio that holds every known sector.
C19_DiversificationInUnitInterval ==
    Scored =>
        /\ InUnitInterval(call.result.diversification)
        /\ call.result.diversification = Num(Dec(100), 0) =>
               Cardinality({StockInfo(call.variant, call.args.holdings[i]).sector :
                                i \in 1..Len(call.args.holdings)}) = 11

(***************************************************************************)
(* Concurrent callers of one RiskProfiler, src/risk_profiler.py: a thread  *)
(* may be suspended between any two statements of a call, and is while a   *)
(* market-data lookup is under way                                          *)
(***************************************************************************)

\* Local variables kept on the RiskProfiler object: one frame for all calls
SharedFrame(c) == 1

\* The frame that holds the local variables of the call of caller c: every
\* call has one of its own
Frame(c) == c

\* What the concurrent callers pass: two users with different scores, ...
ThreadUserData ==
    {u \in DetRootUserData : /\ u.age \in {<<24>>, <<55>>}
                             /\ u.risk_tolerance = Absent
                             /\ u.trading_history = Absent}

\* ... no holdings, a holding of the universe, and a dashboard record
ThreadHoldings ==
    {Absent, <<<<CoreHolding("TSLA", 100)>>>>, <<<<DashboardHolding("TSLA", 100)>>>>}

\* A market in which the lookups of some symbols fail
ThreadMarket == [stride |-> MarketStride, residue |-> 0, quote |-> QError]

\* The caller has a result to take
Done(caller, result, raised) ==
    [pc |-> "done", op |-> caller.op, args |-> caller.args,
     result |-> result, raised |-> raised]

\* assess_risk_profile is entered
CallAssess(c, user_data) ==
    /\ callers[c].pc = "idle"
    /\ callers' = [callers EXCEPT
                      ![c] = [pc |-> "scoring", op |-> "assess", args |-> user_data]]
    /\ frames' = [frames EXCEPT ![Frame(c)] = NoLocals]
    /\ UNCHANGED <<risk_profiles, stock_universe>>

\* score and final_score are computed from user_data
StepScore(c) ==
    /\ callers[c].pc = "scoring"
    /\ frames' = [frames EXCEPT ![Frame(c)].final_score =
                      RootAssessRiskProfile(risk_profiles.root, callers[c].args)[1]]
    /\ callers' = [callers EXCEPT ![c].pc = "returning"]
    /\ UNCHANGED <<risk_profiles, stock_universe>>

\* return final_score, self.risk_profiles[final_score]: a dict lookup,
\* which raises KeyError for a key the table does not have
StepReturnProfile(c) ==
    /\ callers[c].pc = "returning"
    /\ callers' = [callers EXCEPT ![c] =
                       IF frames[Frame(c)].final_score \in DOMAIN risk_profiles.root
                       THEN Done(@, <<frames[Frame(c)].final_score,
                                      risk_profiles.root[frames[Frame(c)].final_score]>>, "")
                       ELSE Done(@, <<>>, "KeyError")]
    /\ UNCHANGED <<risk_profiles, stock_universe, frames>>

\* get_stock_recommendations is entered, with the profile of a score as
\* assess_risk_profile returns it
CallRecommend(c, score, current_portfolio, exclude_owned, market) ==
    /\ callers[c].pc = "idle"
    /\ callers' = [callers EXCEPT
                      ![c] = [pc |-> "filtering", op |-> "recommend",
                              args |-> [risk_profile |-> risk_profiles.root[score],
                                        holdings |-> current_portfolio,
                                        exclude_owned |-> exclude_owned,
                                        market |-> market]]]
    /\ frames' = [frames EXCEPT ![Frame(c)] = NoLocals]
    /\ UNCHANGED <<risk_profiles, stock_universe>>

\* owned_symbols is collected and the filter loop reads self.stock_universe
StepFilter(c) ==
    LET args == callers[c].args
        portfolio == Get(args.holdings, <<>>)
        collect == portfolio # <<>> /\ Truthy(args.exclude_owned)
    IN /\ callers[c].pc = "filtering"
       /\ IF collect /\ \E i \in 1..Len(portfolio) : portfolio[i].symbol = Absent
          THEN /\ callers' = [callers EXCEPT ![c] = Done(@, <<>>, "KeyError")]
               /\ UNCHANGED frames
          ELSE /\ frames' =
                      [frames EXCEPT ![Frame(c)].compatible_stocks =
                          RootCompatibleStocks(
                              stock_universe.root, args.risk_profile,
                              IF collect
                              THEN {portfolio[i].symbol[1] : i \in 1..Len(portfolio)}
                              ELSE {},
                              args.exclude_owned)]
               /\ callers' = [callers EXCEPT ![c].pc = "looking"]
       /\ UNCHANGED <<risk_profiles, stock_universe>>

\* One turn of the recommendation loop: the lookup for the next compatible
\* stock, whose recommendation, if any, is appended
StepLookup(c) ==
    /\ callers[c].pc = "looking"
    /\ frames[Frame(c)].compatible_stocks # <<>>
    /\ frames' =
           [frames EXCEPT
               ![Frame(c)].recommendations =
                   @ \o CreateStockRecommendation(
                            Head(frames[Frame(c)].compatible_stocks),
                            callers[c].args.risk_profile,
                            QuoteOf(callers[c].args.market,
                                    Head(frames[Frame(c)].compatible_stocks).symbol)),
               ![Frame(c)].compatible_stocks = Tail(@)]
    /\ UNCHANGED <<risk_profiles, stock_universe, callers>>

\* The loop is over: the recommendations are sorted and the first 10 returned
StepSort(c) ==
    /\ callers[c].pc = "looking"
    /\ frames[Frame(c)].compatible_stocks = <<>>
    /\ callers' = [callers EXCEPT ![c] =
                       Done(@, Take(SortByStrength(<<>>, frames[Frame(c)].recommendations),
                                    10), "")]
    /\ UNCHANGED <<risk_profiles, stock_universe, frames>>

\* The caller takes the returned value; the frame of the call is gone
TakeResult(c) ==
    /\ callers[c].pc = "done"
    /\ callers' = [callers EXCEPT ![c] = NotCalling]
    /\ frames' = [frames EXCEPT ![Frame(c)] = NoLocals]
    /\ UNCHANGED <<risk_profiles, stock_universe>>

NextThreads ==
    \/ \E c \in Callers, user_data \in ThreadUserData :
           CallAssess(c, user_data) /\ UNCHANGED <<call, first, kept, trading>>
    \/ \E c \in Callers : StepScore(c) /\ UNCHANGED <<call, first, kept, trading>>
    \/ \E c \in Callers : StepReturnProfile(c) /\ UNCHANGED <<call, first, kept, trading>>
    \/ \E c \in Callers, current_portfolio \in ThreadHoldings :
           CallRecommend(c, 10, current_portfolio, PyBool(TRUE), ThreadMarket)
           /\ UNCHANGED <<call, first, kept, trading>>
    \/ \E c \in Callers : StepFilter(c) /\ UNCHANGED <<call, first, kept, trading>>
    \/ \E c \in Callers : StepLookup(c) /\ UNCHANGED <<call, first, kept, trading>>
    \/ \E c \in Callers : StepSort(c) /\ UNCHANGED <<call, first, kept, trading>>
    \/ \E c \in Callers : TakeResult(c) /\ UNCHANGED <<call, first, kept, trading>>

SpecThreads == Init /\ [][NextThreads]_vars

\* What the call of a caller returns when no other call is in progress
Alone(caller) ==
    IF caller.op = "assess"
    THEN [raised |-> "", result |-> RootAssessRiskProfile(RootRiskProfiles, caller.args)]
    ELSE RootGetStockRecommendations(caller.args.risk_profile, caller.args.holdings,
                                     caller.args.exclude_owned, caller.args.market)

\* C20: under every interleaving of the assess and recommend calls of the
\* concurrent callers of one RiskProfiler, each call returns what it returns
\* when run alone, and the profile table and the stock universe stay what
\* they were after construction.
C20_CallsDoNotInterfere ==
    /\ \A c \in Callers :
           callers[c].pc = "done" =>
               [raised |-> callers[c].raised, result |-> callers[c].result]
                   = Alone(callers[c])
    /\ risk_profiles = [root |-> RootRiskProfiles, bot |-> BotRiskProfiles]
    /\ stock_universe = [root |-> RootStockUniverse, bot |-> BotStockUniverse]

\* A recommend call has returned its list while the recommendation loop of
\* another caller, entered with other holdings, is half way
C20_Witness ==
    /\ callers[1].pc = "done" /\ callers[1].op = "recommend"
    /\ callers[1].result # <<>>
    /\ callers[2].pc = "looking"
    /\ callers[2].args.holdings # callers[1].args.holdings
    /\ frames[Frame(2)].recommendations # <<>>
    /\ frames[Frame(2)].compatible_stocks # <<>>

(***************************************************************************)
(* Properties of the profile tables                                        *)
(***************************************************************************)

\* The profile tables of both RiskProfiler objects, entry by entry
TableEntries ==
    {risk_profiles.root[k] : k \in DOMAIN risk_profiles.root}
    \cup {risk_profiles.bot[k] : k \in DOMAIN risk_profiles.bot}

\* stocks, bonds and cash are whole percentages that add up to 100
AddsUpTo100(allocation) ==
    /\ DOMAIN allocation = {"stocks", "bonds", "cash"}
    /\ \A k \in DOMAIN allocation : allocation[k] \in 0..100
    /\ allocation.stocks + allocation.bonds + allocation.cash = 100

\* C21: the allocation of each of the ten entries of a profile table, and
\* of every profile that assess returns, is three whole percentages for
\* stocks, bonds and cash that add up to 100.
C21_AllocationsAddUpTo100 ==
    /\ Len(risk_profiles.root) = 10 /\ Len(risk_profiles.bot) = 10
    /\ \A profile \in TableEntries : AddsUpTo100(profile.allocation)
    /\ call.op = "assess" => AddsUpTo100(call.result[2].allocation)

\* Both variants have returned a profile that holds bonds and cash
C21_Witness ==
    /\ Assessed("bot")
    /\ first.op = "assess" /\ first.variant = "root"
    /\ call.result[2].allocation.cash > 0 /\ call.result[2].allocation.bonds > 0
    /\ first.result[2].allocation.cash > 0

\* No sector is in both lists
Disjoint(recommended_sectors, avoid_sectors) ==
    \A i \in 1..Len(recommended_sectors) :
        ~Contains(avoid_sectors, recommended_sectors[i])

\* C22: in each entry of a profile table, and in every profile that assess
\* returns, recommended_sectors and avoid_sectors have no sector in common.
C22_SectorListsDisjoint ==
    /\ \A profile \in TableEntries :
           Disjoint(profile.recommended_sectors, profile.avoid_sectors)
    /\ call.op = "assess" =>
           Disjoint(call.result[2].recommended_sectors, call.result[2].avoid_sectors)

\* assess has returned a profile that recommends sectors and avoids others
C22_Witness ==
    /\ Assessed("root")
    /\ call.result[2].recommended_sectors # <<>>
    /\ call.result[2].avoid_sectors # <<>>

(***************************************************************************)
(* Properties of the rounding of the 3-question score                      *)
(***************************************************************************)

\* Ten times the weighted sum of three answers, as a whole number
TenfoldSum(q1, q2, q3) == 5 * q1 + 3 * q2 + 2 * q3

\* The three answers are given and lie in 1..10
AnsweredInRange(user_data) ==
    /\ user_data.q1_risk_tolerance # Absent
    /\ user_data.q2_investment_experience # Absent
    /\ user_data.q3_time_horizon # Absent
    /\ user_data.q1_risk_tolerance[1] \in 1..10
    /\ user_data.q2_investment_experience[1] \in 1..10
    /\ user_data.q3_time_horizon[1] \in 1..10

HalfRoundedUp(tenfold, score) ==
    tenfold % 10 = 5 => score = tenfold \div 10 + 1

\* C23: for three answers in 1..10 whose weighted sum 0.5 * q1 + 0.3 * q2 +
\* 0.2 * q3 is exactly k + 0.5, the score of assess is k + 1 (halves are
\* rounded up).
C23_HalvesRoundUp ==
    (Assessed("bot") /\ AnsweredInRange(call.args)) =>
        HalfRoundedUp(TenfoldSum(call.args.q1_risk_tolerance[1],
                                 call.args.q2_investment_experience[1],
                                 call.args.q3_time_horizon[1]),
                      call.result[1])

(***************************************************************************)
(* Properties of the strength and the target allocation                    *)
(***************************************************************************)

\* The universe entry of a returned recommendation
UniverseEntry(variant, rec) ==
    StockUniverse(variant)[CHOOSE k \in 1..Len(StockUniverse(variant)) :
                               StockUniverse(variant)[k].symbol = rec.symbol]

\* 0.5, plus 0.2 for an equal risk or 0.1 for a risk one apart, plus 0.2 for
\* a recommended sector, within [0, 1]
BaseStrength(stock_data, risk_profile) ==
    Clamp(SectorBonus(RiskBonus(Abs(stock_data.risk - risk_profile.score)),
                      Contains(risk_profile.recommended_sectors, stock_data.sector)),
          F000, F100)

\* The market data of the call gives no technical or fundamental adjustment
\* for the symbol; the alpaca_bot variant asks for no market data at all
Unadjusted(c, sym) ==
    c.variant = "root" =>
        /\ ~QuoteOf(c.args.market, sym).pe_in_range
        /\ \/ QuoteOf(c.args.market, sym).bars < 20
           \/ /\ QuoteOf(c.args.market, sym).momentum = 0
              /\ ~QuoteOf(c.args.market, sym).volume_surge

\* C24: the strength of each returned recommendation that got no technical
\* or fundamental adjustment is 0.5, plus 0.2 if the risk of the symbol is
\* the score of the profile or 0.1 if it is one apart, plus 0.2 if the sector
\* of the symbol is recommended by the profile, clamped to [0, 1].
C24_StrengthFromRiskAndSector ==
    Recommended =>
        \A i \in 1..Len(call.result) :
            Unadjusted(call, call.result[i].symbol) =>
                call.result[i].recommendation_strength
                    = BaseStrength(UniverseEntry(call.variant, call.result[i]),
                                   call.args.risk_profile)

\* min(max_position_size, 0.05 + strength * 0.15), in 1/10000
ScaledAllocation(risk_profile, strength) ==
    Min(risk_profile.max_position_size, 500 + strength.n * 15)

\* C25: the target allocation of each returned recommendation is
\* min(profile.max_position_size, 0.05 + recommendation_strength * 0.15).
C25_TargetAllocationFromStrength ==
    Recommended =>
        \A i \in 1..Len(call.result) :
            call.result[i].target_allocation
                = ScaledAllocation(call.args.risk_profile,
                                   call.result[i].recommendation_strength)

(***************************************************************************)
(* Properties of the order of the returned list                            *)
(***************************************************************************)

\* The place of a symbol in the iteration order of the stock universe
UniverseIndex(variant, sym) ==
    CHOOSE k \in 1..Len(StockUniverse(variant)) :
        StockUniverse(variant)[k].symbol = sym

\* Recommendations of equal strength are in the order of the universe
TiesInUniverseOrder(variant, recs) ==
    \A i, j \in 1..Len(recs) :
        (i < j /\ recs[i].recommendation_strength = recs[j].recommendation_strength)
            => UniverseIndex(variant, recs[i].symbol)
                   < UniverseIndex(variant, recs[j].symbol)

\* C26: any two returned recommendations of equal strength are in the
\* order their symbols have in the iteration of the stock universe (the
\* sort by strength is stable).
C26_StableRanking == Recommended => TiesInUniverseOrder(call.variant, call.result)

\* A sorted root list that is not in universe order and in which two
\* recommendations of equal strength are separated by a stronger neighbour
\* in the universe
C26_Witness ==
    /\ Recommended /\ call.variant = "root"
    /\ \E i, j \in 1..Len(call.result) :
           /\ i < j
           /\ call.result[i].recommendation_strength
                  = call.result[j].recommendation_strength
           /\ \E k \in 1..Len(call.result) :
                  /\ k < i
                  /\ RootIndex[call.result[i].symbol] < RootIndex[call.result[k].symbol]
                  /\ RootIndex[call.result[k].symbol] < RootIndex[call.result[j].symbol]

\* The candidates of the last call that passed the filters (and, in the
\* root variant, got a recommendation), each with the strength the variant
\* computes for it
Candidates ==
    IF call.variant = "root"
    THEN {[symbol |-> stock.symbol, strength |-> StrengthOf(stock)] :
              stock \in {Eligible[k] : k \in {i \in 1..Len(Eligible) :
                                                 LookupOf(Eligible[i]) = "ok"}}}
    ELSE {[symbol |-> info.symbol,
           strength |-> BotStrength(call.args.risk_profile.score, info.risk)] :
              info \in {BotStockUniverse[k] :
                            k \in {i \in 1..Len(BotStockUniverse) :
                                       /\ BotStockUniverse[i].symbol \notin HeldSymbols
                                       /\ BotStockUniverse[i].risk
                                              <= call.args.risk_profile.score + 2
                                       /\ ~Contains(call.args.risk_profile.avoid_sectors,
                                                    BotStockUniverse[i].sector)}}}

\* No candidate that was left out is stronger than a returned one
NoStrongerLeftOut(candidates, recs) ==
    \A x \in candidates :
        (\A i \in 1..Len(recs) : recs[i].symbol # x.symbol) =>
            \A i \in 1..Len(recs) : ~FLess(recs[i].recommendation_strength, x.strength)

\* C27: the returned list is the top of the ranking: no candidate that the
\* truncation left out has a strength strictly greater than that of a
\* returned recommendation.
C27_TruncationKeepsStrongest ==
    Recommended => NoStrongerLeftOut(Candidates, call.result)

(***************************************************************************)
(* Properties of the 3-question score as a function of the answers        *)
(***************************************************************************)

\* The three answers assess_risk_profile reads, a missing one being 5
ThreeAnswers(user_data) ==
    <<AnswerOrMidpoint(user_data.q1_risk_tolerance),
      AnswerOrMidpoint(user_data.q2_investment_experience),
      AnswerOrMidpoint(user_data.q3_time_horizon)>>

\* higher is lower with exactly one answer raised
RaisedInOne(lower, higher) ==
    \E q \in 1..3 :
        /\ lower[q] < higher[q]
        /\ \A r \in (1..3) \ {q} : lower[r] = higher[r]

\* The answers a questionnaire of the model can hold
AnswerRange == (1 - AnswerSlack)..(10 + AnswerSlack)

\* user_data with answer q replaced
WithAnswer(user_data, q, a) ==
    IF q = 1 THEN [user_data EXCEPT !.q1_risk_tolerance = <<a>>]
    ELSE IF q = 2 THEN [user_data EXCEPT !.q2_investment_experience = <<a>>]
    ELSE [user_data EXCEPT !.q3_time_horizon = <<a>>]

\* A first assessment with any answers, then assessments of the same
\* questionnaire with one answer raised
AssessFirst ==
    /\ Idle /\ first.op = "none"
    /\ \E user_data \in {u \in BotUserData : u.first_name = Absent} :
           AssessBot(user_data)
    /\ Remember
    /\ UNCHANGED <<kept, threads, trading>>

AssessRaised ==
    /\ Idle /\ first.op = "assess"
    /\ \E q \in 1..3, a \in AnswerRange :
           /\ a > ThreeAnswers(first.args)[q]
           /\ AssessBot(WithAnswer(first.args, q, a))
    /\ UNCHANGED <<first, kept, threads, trading>>

NextRaise ==
    \/ AssessFirst
    \/ AssessRaised
    \/ Return /\ UNCHANGED <<first, kept, threads, trading>>

SpecRaise == Init /\ [][NextRaise]_vars

\* C28: the score of the 3-question form is monotone in each answer: of
\* two assess calls that differ in one answer only, the one with the higher
\* answer does not return the lower score.
C28_MonotoneInEachAnswer ==
    (Assessed("bot") /\ first.op = "assess" /\ first.variant = "bot") =>
        LET was == ThreeAnswers(first.args)
            now == ThreeAnswers(call.args)
        IN /\ RaisedInOne(was, now) => first.result[1] <= call.result[1]
           /\ RaisedInOne(now, was) => call.result[1] <= first.result[1]

\* Two calls that differ in the time horizon only (4, then 9), the scores
\* being 4 and 5
C28_Witness ==
    /\ Assessed("bot") /\ first.op = "assess" /\ first.variant = "bot"
    /\ ThreeAnswers(first.args) = <<4, 4, 4>>
    /\ ThreeAnswers(call.args) = <<4, 4, 9>>
    /\ first.result[1] = 4
    /\ call.result[1] = 5

(***************************************************************************)
(* ExtendedAlpacaTrader.run_trading_cycle, src/alpaca_bot/extended_bot.py  *)
(* One action per API call of the cycle; the account changes between them. *)
(***************************************************************************)

\* The most positions the account holds in the model
MaxOpenPositions == 4

\* The dicts check_all_positions returns
ErrorData == [keys |-> {"error"}, total_positions |-> 0]

PositionsData(n) ==
    [keys |-> {"total_positions", "total_market_value", "total_unrealized_pl",
               "positions"},
     total_positions |-> n]

\* check_all_positions: the count of list_positions(), or the error dict
\* when an API call or the parsing of a position raised
CheckAllPositions(account) ==
    {ErrorData, PositionsData(account.open_positions)}

\* The test of the trading logic with three positions let through
MayTradeAtThree(positions_data) == positions_data.total_positions <= 3

\* if positions_data['total_positions'] < 3
MayTrade(positions_data) == positions_data.total_positions < 3

\* The order of the cycle
SpyOrder(accepted) ==
    [symbol |-> "SPY", qty |-> 1, side |-> "buy", type |-> "market",
     accepted |-> accepted]

\* The market opens or closes
MarketBell ==
    /\ broker' = [broker EXCEPT !.is_open = ~@]
    /\ UNCHANGED <<cycle, run>>

\* Orders fill and positions are closed
AccountActivity ==
    /\ \E n \in (0..MaxOpenPositions) \ {broker.open_positions} :
           broker' = [broker EXCEPT !.open_positions = n]
    /\ UNCHANGED <<cycle, run>>

\* The scheduler or the menu starts a cycle when none is running
StartCycle ==
    /\ cycle.pc \in {"idle", "end"}
    /\ cycle' = [NoCycle EXCEPT !.pc = "clock"]
    /\ UNCHANGED <<broker, run>>

\* clock = self.api.get_clock(); the cycle returns when the market is closed
GetClock ==
    /\ cycle.pc = "clock"
    /\ \/ cycle' = [cycle EXCEPT !.pc = "end", !.logged = "error"]
       \/ /\ ~broker.is_open
          /\ cycle' = [cycle EXCEPT !.pc = "end", !.clock = "closed",
                                    !.logged = "closed"]
       \/ /\ broker.is_open
          /\ cycle' = [cycle EXCEPT !.pc = "account", !.clock = "open"]
    /\ UNCHANGED <<broker, run>>

\* account = self.api.get_account() and the log line with the buying power
GetAccount ==
    /\ cycle.pc = "account"
    /\ \/ cycle' = [cycle EXCEPT !.pc = "end", !.logged = "error"]
       \/ cycle' = [cycle EXCEPT !.pc = "check"]
    /\ UNCHANGED <<broker, run>>

\* positions_data = self.check_all_positions() and the test on it; the
\* error dict has no 'total_positions' (KeyError, caught by the cycle)
CheckPositions ==
    /\ cycle.pc = "check"
    /\ \E positions_data \in CheckAllPositions(broker) :
           cycle' =
               IF "total_positions" \notin positions_data.keys
               THEN [cycle EXCEPT !.positions_data = positions_data,
                                  !.pc = "end", !.logged = "error"]
               ELSE IF MayTrade(positions_data)
               THEN [cycle EXCEPT !.positions_data = positions_data,
                                  !.pc = "order"]
               ELSE [cycle EXCEPT !.positions_data = positions_data,
                                  !.pc = "end", !.logged = "completed"]
    /\ UNCHANGED <<broker, run>>

\* self.api.submit_order(...): accepted, or an exception that is logged as
\* a warning; the cycle completes either way
SubmitOrder ==
    /\ cycle.pc = "order"
    /\ \E accepted \in BOOLEAN :
           cycle' = [cycle EXCEPT !.submitted = Append(@, SpyOrder(accepted)),
                                  !.pc = "end", !.logged = "completed"]
    /\ UNCHANGED <<broker, run>>

NextCycle ==
    \/ MarketBell /\ UNCHANGED <<risk_profiles, call, first, kept, threads>>
    \/ AccountActivity /\ UNCHANGED <<risk_profiles, call, first, kept, threads>>
    \/ StartCycle /\ UNCHANGED <<risk_profiles, call, first, kept, threads>>
    \/ GetClock /\ UNCHANGED <<risk_profiles, call, first, kept, threads>>
    \/ GetAccount /\ UNCHANGED <<risk_profiles, call, first, kept, threads>>
    \/ CheckPositions /\ UNCHANGED <<risk_profiles, call, first, kept, threads>>
    \/ SubmitOrder /\ UNCHANGED <<risk_profiles, call, first, kept, threads>>

SpecCycle == Init /\ [][NextCycle]_vars

\* C29: a cycle submits at most one order, a buy, and only with the clock
\* reported open and a position check that reported fewer than 3
\* positions; a cycle that saw the market closed or whose position check
\* failed has ended and submitted nothing.
C29_AtMostOneGuardedBuy ==
    /\ Len(cycle.submitted) <= 1
    /\ \A i \in 1..Len(cycle.submitted) :
           /\ cycle.submitted[i].side = "buy"
           /\ cycle.clock = "open"
           /\ "total_positions" \in cycle.positions_data.keys
           /\ cycle.positions_data.total_positions < 3
    /\ (cycle.clock = "closed" \/ cycle.positions_data = ErrorData) =>
           /\ cycle.pc = "end"
           /\ cycle.submitted = <<>>

\* A cycle that bought with two positions reported while the account has
\* three by the time of the order
C29_Witness ==
    /\ cycle.pc = "end"
    /\ cycle.logged = "completed"
    /\ Len(cycle.submitted) = 1
    /\ cycle.positions_data.total_positions = 2
    /\ broker.open_positions = 3

(***************************************************************************)
(* main() of the trading bot, src/alpaca_bot/trading_bot.py ("v1") and     *)
(* src/trading_bot_v2.py ("v2"): one action per step of the workflow       *)
(***************************************************************************)

MainVariants == {"v1", "v2"}

\* place_market_order: the order info of a submitted order, or None when
\* submit_order or the building of the order info raised; received tells
\* whether the broker got the order
PlaceMarketOrder(side) ==
    {[order |-> [symbol |-> "AAPL", qty |-> 1, side |-> side,
                 received |-> TRUE], returned |-> "placed"],
     [order |-> [symbol |-> "AAPL", qty |-> 1, side |-> side,
                 received |-> TRUE], returned |-> "none"],
     [order |-> [symbol |-> "AAPL", qty |-> 1, side |-> side,
                 received |-> FALSE], returned |-> "none"]}

\* The workflow with the sell order placed whatever the buy order returned
AfterBuyAlwaysSell(buy_order) == "wait"

\* if buy_order: wait and sell, else skip to the order history
AfterBuy(buy_order) == IF buy_order = "placed" THEN "wait" ELSE "history"

\* The step has been executed
Stepped(name) == [run EXCEPT !.steps = Append(@, name)]

\* trader = AlpacaPaperTrader() / AlpacaTraderV2(): missing credentials are
\* fatal
StartMain ==
    /\ run.pc \in {"idle", "completed", "raised"}
    /\ \E variant \in MainVariants :
           \/ run' = [NoRun EXCEPT !.variant = variant, !.pc = "market"]
           \/ run' = [NoRun EXCEPT !.variant = variant, !.pc = "raised"]
    /\ UNCHANGED <<broker, cycle>>

\* Step 1: check_market_status returns False when the clock cannot be read
CheckMarketStatus ==
    /\ run.pc = "market"
    /\ \E is_open \in {broker.is_open, FALSE} :
           run' = [Stepped("market") EXCEPT !.is_open = is_open,
                                            !.pc = "account"]
    /\ UNCHANGED <<broker, cycle>>

\* Step 2: get_account_info re-raises in v1 and returns {} in v2
GetAccountInfo ==
    /\ run.pc = "account"
    /\ \/ run' = [Stepped("account") EXCEPT !.pc = "positions"]
       \/ run' = [Stepped("account") EXCEPT
                      !.pc = IF run.variant = "v1" THEN "raised" ELSE "positions"]
    /\ UNCHANGED <<broker, cycle>>

\* Step 3: get_positions returns [] when the positions cannot be read
GetPositions ==
    /\ run.pc = "positions"
    /\ \E n \in {broker.open_positions, 0} :
           run' = [Stepped("positions") EXCEPT !.positions = n, !.pc = "buy"]
    /\ UNCHANGED <<broker, cycle>>

\* Step 4: the BUY order and the test of what place_market_order returned
PlaceBuyOrder ==
    /\ run.pc = "buy"
    /\ \E placed \in PlaceMarketOrder("buy") :
           run' = [Stepped("buy") EXCEPT
                       !.buy_order = placed.returned,
                       !.submitted = Append(@, placed.order),
                       !.pc = AfterBuy(placed.returned)]
    /\ UNCHANGED <<broker, cycle>>

\* Step 5: sixty seconds of sleep
WaitBeforeSelling ==
    /\ run.pc = "wait"
    /\ run' = [Stepped("wait") EXCEPT !.pc = "sell"]
    /\ UNCHANGED <<broker, cycle>>

\* Step 6: the SELL order; what it returns is not looked at
PlaceSellOrder ==
    /\ run.pc = "sell"
    /\ \E placed \in PlaceMarketOrder("sell") :
           run' = [Stepped("sell") EXCEPT
                       !.submitted = Append(@, placed.order),
                       !.pc = "history"]
    /\ UNCHANGED <<broker, cycle>>

\* Step 7: get_recent_orders returns [] when the orders cannot be read
GetRecentOrders ==
    /\ run.pc = "history"
    /\ run' = [Stepped("history") EXCEPT !.pc = "final_positions"]
    /\ UNCHANGED <<broker, cycle>>

\* Step 8: the final get_positions; v2 ends here
FinalPositions ==
    /\ run.pc = "final_positions"
    /\ \E n \in {broker.open_positions, 0} :
           run' = [Stepped("final_positions") EXCEPT
                       !.positions = n,
                       !.pc = IF run.variant = "v1" THEN "final_account"
                              ELSE "completed"]
    /\ UNCHANGED <<broker, cycle>>

\* Step 9 of v1: the final get_account_info, which re-raises
FinalAccount ==
    /\ run.pc = "final_account"
    /\ \E pc \in {"completed", "raised"} :
           run' = [Stepped("final_account") EXCEPT !.pc = pc]
    /\ UNCHANGED <<broker, cycle>>

\* The steps of a run in progress
MainStep ==
    /\ \/ CheckMarketStatus
       \/ GetAccountInfo
       \/ GetPositions
       \/ PlaceBuyOrder
       \/ WaitBeforeSelling
       \/ PlaceSellOrder
       \/ GetRecentOrders
       \/ FinalPositions
       \/ FinalAccount
    /\ UNCHANGED <<risk_profiles, call, first, kept, threads>>

NextMain ==
    \/ MarketBell /\ UNCHANGED <<risk_profiles, call, first, kept, threads>>
    \/ AccountActivity /\ UNCHANGED <<risk_profiles, call, first, kept, threads>>
    \/ StartMain /\ UNCHANGED <<risk_profiles, call, first, kept, threads>>
    \/ CheckMarketStatus /\ UNCHANGED <<risk_profiles, call, first, kept, threads>>
    \/ GetAccountInfo /\ UNCHANGED <<risk_profiles, call, first, kept, threads>>
    \/ GetPositions /\ UNCHANGED <<risk_profiles, call, first, kept, threads>>
    \/ PlaceBuyOrder /\ UNCHANGED <<risk_profiles, call, first, kept, threads>>
    \/ WaitBeforeSelling /\ UNCHANGED <<risk_profiles, call, first, kept, threads>>
    \/ PlaceSellOrder /\ UNCHANGED <<risk_profiles, call, first, kept, threads>>
    \/ GetRecentOrders /\ UNCHANGED <<risk_profiles, call, first, kept, threads>>
    \/ FinalPositions /\ UNCHANGED <<risk_profiles, call, first, kept, threads>>
    \/ FinalAccount /\ UNCHANGED <<risk_profiles, call, first, kept, threads>>

\* A started run keeps running: every API call returns or raises, and the
\* sleep ends
SpecMain == Init /\ [][NextMain]_vars /\ WF_vars(MainStep)

\* The run has a SELL order among its submitted orders
SellSubmitted ==
    \E i \in 1..Len(run.submitted) : run.submitted[i].side = "sell"

\* Every SELL order comes after a BUY order that was placed successfully
SellOnlyAfterBuy ==
    \A i \in 1..Len(run.submitted) :
        run.submitted[i].side = "sell" =>
            /\ run.buy_order = "placed"
            /\ \E j \in 1..(i - 1) :
                   /\ run.submitted[j].side = "buy"
                   /\ run.submitted[j].received

\* The BUY order of the run failed
BuyFailed == run.buy_order = "none"

\* The run is past the order-history and the position step
PastHistoryAndPositions ==
    /\ \E i \in 1..Len(run.steps) : run.steps[i] = "history"
    /\ \E i \in 1..Len(run.steps) : run.steps[i] = "final_positions"
    /\ ~SellSubmitted

\* C30: the SELL order of a run is submitted only after its BUY order was
\* placed successfully; after a failed BUY order no SELL order is ever
\* submitted, the next step is the order history, and the run goes on
\* through the order-history and the position step.
C30_SellOnlyAfterSuccessfulBuy ==
    /\ [](SellOnlyAfterBuy
          /\ (BuyFailed =>
                  /\ ~SellSubmitted
                  /\ run.pc \in {"history", "final_positions", "final_account",
                                 "completed", "raised"}))
    /\ (BuyFailed ~> PastHistoryAndPositions)

\* A run whose BUY order failed and that has gone through the order
\* history and the position check without a SELL order
C30_Witness ==
    /\ BuyFailed
    /\ run.pc = "completed"
    /\ run.steps = <<"market", "account", "positions", "buy", "history",
                     "final_positions">>
    /\ Len(run.submitted) = 1

====
